---- MODULE Spec2Model ----
(***************************************************************************)
(* A model of the AI Research Agent (src/script.js): the AIResearchAgent   *)
(* workflow sequencer, the MockAPIService source provider and the          *)
(* localStorage-backed research history.                                   *)
(*                                                                         *)
(* Conventions.  A JavaScript string that the code inspects character by   *)
(* character (a topic, a title, a summary, a keyword) is a sequence of     *)
(* one-character strings.  Numbers with a fractional part are scaled:      *)
(* relevance is in hundredths (0.95 is 95), Math.random() in thousandths.  *)
(* Time is in milliseconds.  JavaScript objects live in a heap and are     *)
(* named by their address, so that aliasing (this.currentResearch and the  *)
(* entries of this.researchHistory naming one object) is kept.             *)
(*                                                                         *)
(* Time.  A timer callback runs at the time its timer expires, and the     *)
(* code between two awaits takes no time; the user acts at the time of the *)
(* last event or a multiple of TimeGrid later, not after the next timer    *)
(* expires.  The page may be loaded on a stored item another writer left   *)
(* (StoredBefore), and localStorage may refuse a write.                    *)
(***************************************************************************)
EXTENDS Integers, Sequences, FiniteSets, TLC

(***************************************************************************)
(* Strings                                                                 *)
(***************************************************************************)
UpperCase == <<"A","B","C","D","E","F","G","H","I","J","K","L","M",
               "N","O","P","Q","R","S","T","U","V","W","X","Y","Z">>

LowerCase == <<"a","b","c","d","e","f","g","h","i","j","k","l","m",
               "n","o","p","q","r","s","t","u","v","w","x","y","z">>

\* String.prototype.toLowerCase
toLowerCase(s) ==
  [i \in 1..Len(s) |->
     IF \E k \in 1..Len(UpperCase) : UpperCase[k] = s[i]
       THEN LowerCase[CHOOSE k \in 1..Len(UpperCase) : UpperCase[k] = s[i]]
       ELSE s[i]]

\* String.prototype.includes: needle occurs in hay as a contiguous substring
\* (the empty string occurs in every string).
includes(hay, needle) ==
  \E i \in 0..(Len(hay) - Len(needle)) :
     \A k \in 1..Len(needle) : hay[i + k] = needle[k]

\* String.prototype.split(' '): cut at every single space; adjacent spaces
\* give empty words and a string without a space gives one word.
RECURSIVE split(_)
split(s) ==
  IF \A i \in 1..Len(s) : s[i] # " "
    THEN <<s>>
    ELSE LET i == CHOOSE j \in 1..Len(s) :
                     s[j] = " " /\ \A k \in 1..(j - 1) : s[k] # " "
         IN  <<SubSeq(s, 1, i - 1)>> \o split(SubSeq(s, i + 1, Len(s)))

\* String.prototype.trim (the model's only white space is the space).
RECURSIVE trim(_)
trim(s) ==
  IF s = <<>> THEN s
  ELSE IF Head(s) = " " THEN trim(Tail(s))
  ELSE IF s[Len(s)] = " " THEN trim(SubSeq(s, 1, Len(s) - 1))
  ELSE s

\* Array.prototype.slice(0, n)
slice(a, n) == SubSeq(a, 1, IF n < Len(a) THEN n ELSE Len(a))

(***************************************************************************)
(* MockAPIService: the two catalogs (lines 515-663)                        *)
(***************************************************************************)
WikipediaArticles ==
  <<
    [title |-> <<"A","r","t","i","f","i","c","i","a","l"," ","I","n","t","e","l","l","i","g","e","n","c","e">>,
     summary |-> <<"A","r","t","i","f","i","c","i","a","l"," ","i","n","t","e","l","l","i","g","e","n","c","e"," ","(","A","I",")"," ","i","s"," ","i","n","t","e","l","l","i","g","e","n","c","e"," ","d","e","m","o","n","s","t","r","a","t","e","d"," ","b","y"," ","m","a","c","h","i","n","e","s",","," ","i","n"," ","c","o","n","t","r","a","s","t"," ","t","o"," ","t","h","e"," ","n","a","t","u","r","a","l"," ","i","n","t","e","l","l","i","g","e","n","c","e"," ","d","i","s","p","l","a","y","e","d"," ","b","y"," ","h","u","m","a","n","s"," ","a","n","d"," ","a","n","i","m","a","l","s",".">>,
     source |-> "Wikipedia", relevance |-> 95],
    [title |-> <<"M","a","c","h","i","n","e"," ","L","e","a","r","n","i","n","g">>,
     summary |-> <<"M","a","c","h","i","n","e"," ","l","e","a","r","n","i","n","g"," ","(","M","L",")"," ","i","s"," ","a"," ","t","y","p","e"," ","o","f"," ","a","r","t","i","f","i","c","i","a","l"," ","i","n","t","e","l","l","i","g","e","n","c","e"," ","t","h","a","t"," ","a","l","l","o","w","s"," ","s","o","f","t","w","a","r","e"," ","a","p","p","l","i","c","a","t","i","o","n","s"," ","t","o"," ","b","e","c","o","m","e"," ","m","o","r","e"," ","a","c","c","u","r","a","t","e"," ","a","t"," ","p","r","e","d","i","c","t","i","n","g"," ","o","u","t","c","o","m","e","s",".">>,
     source |-> "Wikipedia", relevance |-> 92],
    [title |-> <<"D","e","e","p"," ","L","e","a","r","n","i","n","g">>,
     summary |-> <<"D","e","e","p"," ","l","e","a","r","n","i","n","g"," ","i","s"," ","p","a","r","t"," ","o","f"," ","a"," ","b","r","o","a","d","e","r"," ","f","a","m","i","l","y"," ","o","f"," ","m","a","c","h","i","n","e"," ","l","e","a","r","n","i","n","g"," ","m","e","t","h","o","d","s"," ","b","a","s","e","d"," ","o","n"," ","a","r","t","i","f","i","c","i","a","l"," ","n","e","u","r","a","l"," ","n","e","t","w","o","r","k","s"," ","w","i","t","h"," ","r","e","p","r","e","s","e","n","t","a","t","i","o","n"," ","l","e","a","r","n","i","n","g",".">>,
     source |-> "Wikipedia", relevance |-> 88],
    [title |-> <<"N","a","t","u","r","a","l"," ","L","a","n","g","u","a","g","e"," ","P","r","o","c","e","s","s","i","n","g">>,
     summary |-> <<"N","a","t","u","r","a","l"," ","l","a","n","g","u","a","g","e"," ","p","r","o","c","e","s","s","i","n","g"," ","(","N","L","P",")"," ","i","s"," ","a"," ","s","u","b","f","i","e","l","d"," ","o","f"," ","l","i","n","g","u","i","s","t","i","c","s",","," ","c","o","m","p","u","t","e","r"," ","s","c","i","e","n","c","e",","," ","a","n","d"," ","a","r","t","i","f","i","c","i","a","l"," ","i","n","t","e","l","l","i","g","e","n","c","e"," ","c","o","n","c","e","r","n","e","d"," ","w","i","t","h"," ","i","n","t","e","r","a","c","t","i","o","n","s"," ","b","e","t","w","e","e","n"," ","c","o","m","p","u","t","e","r","s"," ","a","n","d"," ","h","u","m","a","n"," ","l","a","n","g","u","a","g","e",".">>,
     source |-> "Wikipedia", relevance |-> 85],
    [title |-> <<"C","o","m","p","u","t","e","r"," ","V","i","s","i","o","n">>,
     summary |-> <<"C","o","m","p","u","t","e","r"," ","v","i","s","i","o","n"," ","i","s"," ","a","n"," ","i","n","t","e","r","d","i","s","c","i","p","l","i","n","a","r","y"," ","s","c","i","e","n","t","i","f","i","c"," ","f","i","e","l","d"," ","t","h","a","t"," ","d","e","a","l","s"," ","w","i","t","h"," ","h","o","w"," ","c","o","m","p","u","t","e","r","s"," ","c","a","n"," ","g","a","i","n"," ","h","i","g","h","-","l","e","v","e","l"," ","u","n","d","e","r","s","t","a","n","d","i","n","g"," ","f","r","o","m"," ","d","i","g","i","t","a","l"," ","i","m","a","g","e","s"," ","o","r"," ","v","i","d","e","o","s",".">>,
     source |-> "Wikipedia", relevance |-> 82],
    [title |-> <<"N","e","u","r","a","l"," ","N","e","t","w","o","r","k">>,
     summary |-> <<"A"," ","n","e","u","r","a","l"," ","n","e","t","w","o","r","k"," ","i","s"," ","a"," ","n","e","t","w","o","r","k"," ","o","r"," ","c","i","r","c","u","i","t"," ","o","f"," ","n","e","u","r","o","n","s",","," ","o","r"," ","i","n"," ","a"," ","m","o","d","e","r","n"," ","s","e","n","s","e",","," ","a","n"," ","a","r","t","i","f","i","c","i","a","l"," ","n","e","u","r","a","l"," ","n","e","t","w","o","r","k",","," ","c","o","m","p","o","s","e","d"," ","o","f"," ","a","r","t","i","f","i","c","i","a","l"," ","n","e","u","r","o","n","s"," ","o","r"," ","n","o","d","e","s",".">>,
     source |-> "Wikipedia", relevance |-> 80],
    [title |-> <<"D","a","t","a"," ","S","c","i","e","n","c","e">>,
     summary |-> <<"D","a","t","a"," ","s","c","i","e","n","c","e"," ","i","s"," ","a","n"," ","i","n","t","e","r","-","d","i","s","c","i","p","l","i","n","a","r","y"," ","f","i","e","l","d"," ","t","h","a","t"," ","u","s","e","s"," ","s","c","i","e","n","t","i","f","i","c"," ","m","e","t","h","o","d","s",","," ","p","r","o","c","e","s","s","e","s",","," ","a","l","g","o","r","i","t","h","m","s"," ","a","n","d"," ","s","y","s","t","e","m","s"," ","t","o"," ","e","x","t","r","a","c","t"," ","k","n","o","w","l","e","d","g","e"," ","a","n","d"," ","i","n","s","i","g","h","t","s"," ","f","r","o","m"," ","d","a","t","a",".">>,
     source |-> "Wikipedia", relevance |-> 78],
    [title |-> <<"R","o","b","o","t","i","c","s">>,
     summary |-> <<"R","o","b","o","t","i","c","s"," ","i","s"," ","a","n"," ","i","n","t","e","r","d","i","s","c","i","p","l","i","n","a","r","y"," ","r","e","s","e","a","r","c","h"," ","a","r","e","a"," ","a","t"," ","t","h","e"," ","i","n","t","e","r","f","a","c","e"," ","o","f"," ","c","o","m","p","u","t","e","r"," ","s","c","i","e","n","c","e"," ","a","n","d"," ","e","n","g","i","n","e","e","r","i","n","g"," ","t","h","a","t"," ","d","e","a","l","s"," ","w","i","t","h"," ","t","h","e"," ","d","e","s","i","g","n",","," ","c","o","n","s","t","r","u","c","t","i","o","n",","," ","o","p","e","r","a","t","i","o","n",","," ","a","n","d"," ","u","s","e"," ","o","f"," ","r","o","b","o","t","s",".">>,
     source |-> "Wikipedia", relevance |-> 75],
    [title |-> <<"B","l","o","c","k","c","h","a","i","n"," ","T","e","c","h","n","o","l","o","g","y">>,
     summary |-> <<"A"," ","b","l","o","c","k","c","h","a","i","n"," ","i","s"," ","a"," ","g","r","o","w","i","n","g"," ","l","i","s","t"," ","o","f"," ","r","e","c","o","r","d","s",","," ","c","a","l","l","e","d"," ","b","l","o","c","k","s",","," ","t","h","a","t"," ","a","r","e"," ","l","i","n","k","e","d"," ","a","n","d"," ","s","e","c","u","r","e","d"," ","u","s","i","n","g"," ","c","r","y","p","t","o","g","r","a","p","h","y"," ","f","o","r"," ","s","e","c","u","r","e"," ","a","n","d"," ","t","r","a","n","s","p","a","r","e","n","t"," ","t","r","a","n","s","a","c","t","i","o","n","s",".">>,
     source |-> "Wikipedia", relevance |-> 70],
    [title |-> <<"I","n","t","e","r","n","e","t"," ","o","f"," ","T","h","i","n","g","s">>,
     summary |-> <<"T","h","e"," ","I","n","t","e","r","n","e","t"," ","o","f"," ","t","h","i","n","g","s"," ","(","I","o","T",")"," ","d","e","s","c","r","i","b","e","s"," ","t","h","e"," ","n","e","t","w","o","r","k"," ","o","f"," ","p","h","y","s","i","c","a","l"," ","o","b","j","e","c","t","s"," ","t","h","a","t"," ","a","r","e"," ","e","m","b","e","d","d","e","d"," ","w","i","t","h"," ","s","e","n","s","o","r","s",","," ","s","o","f","t","w","a","r","e",","," ","a","n","d"," ","o","t","h","e","r"," ","t","e","c","h","n","o","l","o","g","i","e","s"," ","f","o","r"," ","c","o","n","n","e","c","t","i","n","g"," ","a","n","d"," ","e","x","c","h","a","n","g","i","n","g"," ","d","a","t","a",".">>,
     source |-> "Wikipedia", relevance |-> 68]
  >>

HackerNewsArticles ==
  <<
    [title |-> <<"T","h","e"," ","F","u","t","u","r","e"," ","o","f"," ","A","I"," ","i","n"," ","H","e","a","l","t","h","c","a","r","e">>,
     summary |-> <<"D","i","s","c","u","s","s","i","o","n"," ","a","b","o","u","t"," ","h","o","w"," ","a","r","t","i","f","i","c","i","a","l"," ","i","n","t","e","l","l","i","g","e","n","c","e"," ","i","s"," ","r","e","v","o","l","u","t","i","o","n","i","z","i","n","g"," ","m","e","d","i","c","a","l"," ","d","i","a","g","n","o","s","i","s",","," ","t","r","e","a","t","m","e","n","t"," ","p","l","a","n","n","i","n","g",","," ","a","n","d"," ","p","a","t","i","e","n","t"," ","c","a","r","e"," ","a","c","r","o","s","s"," ","v","a","r","i","o","u","s"," ","h","e","a","l","t","h","c","a","r","e"," ","s","e","c","t","o","r","s",".">>,
     source |-> "HackerNews", relevance |-> 90],
    [title |-> <<"B","u","i","l","d","i","n","g"," ","S","c","a","l","a","b","l","e"," ","M","a","c","h","i","n","e"," ","L","e","a","r","n","i","n","g"," ","S","y","s","t","e","m","s">>,
     summary |-> <<"T","e","c","h","n","i","c","a","l"," ","d","i","s","c","u","s","s","i","o","n"," ","o","n"," ","a","r","c","h","i","t","e","c","t","u","r","e"," ","p","a","t","t","e","r","n","s",","," ","i","n","f","r","a","s","t","r","u","c","t","u","r","e"," ","c","h","o","i","c","e","s",","," ","a","n","d"," ","b","e","s","t"," ","p","r","a","c","t","i","c","e","s"," ","f","o","r"," ","d","e","p","l","o","y","i","n","g"," ","M","L"," ","m","o","d","e","l","s"," ","a","t"," ","s","c","a","l","e"," ","i","n"," ","p","r","o","d","u","c","t","i","o","n"," ","e","n","v","i","r","o","n","m","e","n","t","s",".">>,
     source |-> "HackerNews", relevance |-> 87],
    [title |-> <<"O","p","e","n"," ","S","o","u","r","c","e"," ","A","I"," ","T","o","o","l","s"," ","a","n","d"," ","F","r","a","m","e","w","o","r","k","s">>,
     summary |-> <<"C","o","m","m","u","n","i","t","y"," ","d","i","s","c","u","s","s","i","o","n"," ","a","b","o","u","t"," ","t","h","e"," ","l","a","t","e","s","t"," ","o","p","e","n","-","s","o","u","r","c","e"," ","t","o","o","l","s",","," ","l","i","b","r","a","r","i","e","s",","," ","a","n","d"," ","f","r","a","m","e","w","o","r","k","s"," ","t","h","a","t"," ","a","r","e"," ","d","r","i","v","i","n","g"," ","i","n","n","o","v","a","t","i","o","n"," ","i","n"," ","a","r","t","i","f","i","c","i","a","l"," ","i","n","t","e","l","l","i","g","e","n","c","e"," ","d","e","v","e","l","o","p","m","e","n","t",".">>,
     source |-> "HackerNews", relevance |-> 84],
    [title |-> <<"E","t","h","i","c","s"," ","i","n"," ","A","I"," ","D","e","v","e","l","o","p","m","e","n","t">>,
     summary |-> <<"I","m","p","o","r","t","a","n","t"," ","c","o","n","v","e","r","s","a","t","i","o","n"," ","a","b","o","u","t"," ","r","e","s","p","o","n","s","i","b","l","e"," ","A","I"," ","d","e","v","e","l","o","p","m","e","n","t",","," ","b","i","a","s"," ","m","i","t","i","g","a","t","i","o","n",","," ","p","r","i","v","a","c","y"," ","c","o","n","c","e","r","n","s",","," ","a","n","d"," ","t","h","e"," ","s","o","c","i","e","t","a","l"," ","i","m","p","a","c","t"," ","o","f"," ","a","r","t","i","f","i","c","i","a","l"," ","i","n","t","e","l","l","i","g","e","n","c","e"," ","s","y","s","t","e","m","s",".">>,
     source |-> "HackerNews", relevance |-> 81],
    [title |-> <<"S","t","a","r","t","u","p"," ","S","u","c","c","e","s","s"," ","w","i","t","h"," ","A","I"," ","I","n","t","e","g","r","a","t","i","o","n">>,
     summary |-> <<"R","e","a","l","-","w","o","r","l","d"," ","c","a","s","e"," ","s","t","u","d","i","e","s"," ","a","n","d"," ","e","x","p","e","r","i","e","n","c","e","s"," ","f","r","o","m"," ","s","t","a","r","t","u","p","s"," ","t","h","a","t"," ","h","a","v","e"," ","s","u","c","c","e","s","s","f","u","l","l","y"," ","i","n","t","e","g","r","a","t","e","d"," ","A","I"," ","t","e","c","h","n","o","l","o","g","i","e","s"," ","i","n","t","o"," ","t","h","e","i","r"," ","p","r","o","d","u","c","t","s"," ","a","n","d"," ","b","u","s","i","n","e","s","s"," ","m","o","d","e","l","s",".">>,
     source |-> "HackerNews", relevance |-> 78],
    [title |-> <<"L","a","t","e","s","t"," ","B","r","e","a","k","t","h","r","o","u","g","h","s"," ","i","n"," ","R","e","s","e","a","r","c","h">>,
     summary |-> <<"D","i","s","c","u","s","s","i","o","n"," ","o","f"," ","r","e","c","e","n","t"," ","a","c","a","d","e","m","i","c"," ","p","a","p","e","r","s",","," ","r","e","s","e","a","r","c","h"," ","f","i","n","d","i","n","g","s",","," ","a","n","d"," ","t","e","c","h","n","o","l","o","g","i","c","a","l"," ","b","r","e","a","k","t","h","r","o","u","g","h","s"," ","t","h","a","t"," ","a","r","e"," ","p","u","s","h","i","n","g"," ","t","h","e"," ","b","o","u","n","d","a","r","i","e","s"," ","o","f"," ","w","h","a","t","'","s"," ","p","o","s","s","i","b","l","e",".">>,
     source |-> "HackerNews", relevance |-> 75],
    [title |-> <<"A","I"," ","i","n"," ","S","o","f","t","w","a","r","e"," ","D","e","v","e","l","o","p","m","e","n","t">>,
     summary |-> <<"H","o","w"," ","a","r","t","i","f","i","c","i","a","l"," ","i","n","t","e","l","l","i","g","e","n","c","e"," ","i","s"," ","c","h","a","n","g","i","n","g"," ","t","h","e"," ","w","a","y"," ","w","e"," ","w","r","i","t","e",","," ","t","e","s","t",","," ","a","n","d"," ","m","a","i","n","t","a","i","n"," ","c","o","d","e",","," ","i","n","c","l","u","d","i","n","g"," ","A","I","-","p","o","w","e","r","e","d"," ","d","e","v","e","l","o","p","m","e","n","t"," ","t","o","o","l","s"," ","a","n","d"," ","a","u","t","o","m","a","t","i","o","n",".">>,
     source |-> "HackerNews", relevance |-> 72],
    [title |-> <<"D","a","t","a"," ","P","r","i","v","a","c","y"," ","a","n","d"," ","S","e","c","u","r","i","t","y">>,
     summary |-> <<"T","e","c","h","n","i","c","a","l"," ","d","i","s","c","u","s","s","i","o","n"," ","a","b","o","u","t"," ","p","r","o","t","e","c","t","i","n","g"," ","u","s","e","r"," ","d","a","t","a",","," ","i","m","p","l","e","m","e","n","t","i","n","g"," ","p","r","i","v","a","c","y","-","p","r","e","s","e","r","v","i","n","g"," ","t","e","c","h","n","o","l","o","g","i","e","s",","," ","a","n","d"," ","m","a","i","n","t","a","i","n","i","n","g"," ","s","e","c","u","r","i","t","y"," ","i","n"," ","d","a","t","a","-","d","r","i","v","e","n"," ","a","p","p","l","i","c","a","t","i","o","n","s",".">>,
     source |-> "HackerNews", relevance |-> 69],
    [title |-> <<"C","l","o","u","d"," ","C","o","m","p","u","t","i","n","g"," ","I","n","n","o","v","a","t","i","o","n","s">>,
     summary |-> <<"L","a","t","e","s","t"," ","d","e","v","e","l","o","p","m","e","n","t","s"," ","i","n"," ","c","l","o","u","d"," ","i","n","f","r","a","s","t","r","u","c","t","u","r","e",","," ","s","e","r","v","e","r","l","e","s","s"," ","c","o","m","p","u","t","i","n","g",","," ","a","n","d"," ","d","i","s","t","r","i","b","u","t","e","d"," ","s","y","s","t","e","m","s"," ","t","h","a","t"," ","e","n","a","b","l","e"," ","m","o","d","e","r","n"," ","a","p","p","l","i","c","a","t","i","o","n"," ","d","e","v","e","l","o","p","m","e","n","t",".">>,
     source |-> "HackerNews", relevance |-> 66],
    [title |-> <<"M","o","b","i","l","e"," ","T","e","c","h","n","o","l","o","g","y"," ","T","r","e","n","d","s">>,
     summary |-> <<"D","i","s","c","u","s","s","i","o","n"," ","a","b","o","u","t"," ","e","m","e","r","g","i","n","g"," ","m","o","b","i","l","e"," ","t","e","c","h","n","o","l","o","g","i","e","s",","," ","d","e","v","e","l","o","p","m","e","n","t"," ","f","r","a","m","e","w","o","r","k","s",","," ","a","n","d"," ","u","s","e","r"," ","e","x","p","e","r","i","e","n","c","e"," ","i","n","n","o","v","a","t","i","o","n","s"," ","i","n"," ","m","o","b","i","l","e"," ","a","p","p","l","i","c","a","t","i","o","n"," ","d","e","v","e","l","o","p","m","e","n","t",".">>,
     source |-> "HackerNews", relevance |-> 63]
  >>

\* The article objects the provider hands out: title, summary and url are
\* immutable text, so an article object is named by its catalog and position
\* there (key) and carries the fields the agent reads (source, relevance).
ArticleObjects(catalog) ==
  [i \in 1..Len(catalog) |->
     [source |-> catalog[i].source, key |-> i, relevance |-> catalog[i].relevance]]

generateWikipediaData == ArticleObjects(WikipediaArticles)

generateHackerNewsData == ArticleObjects(HackerNewsArticles)

TextOf(article) ==
  IF article.source = "Wikipedia"
    THEN WikipediaArticles[article.key]
    ELSE HackerNewsArticles[article.key]

(***************************************************************************)
(* Inputs: the topics and depths a submission is made with                 *)
(***************************************************************************)
TopicMachineLearning == <<"M","a","c","h","i","n","e"," ","L","e","a","r","n","i","n","g">>

TopicUnderstanding == <<"U","n","d","e","r","s","t","a","n","d","i","n","g">>

TopicRoboticsClub == <<"R","o","b","o","t","i","c","s"," ","h","o","b","b","y"," ","c","l","u","b"," ","b","l","o","g">>

Topics == {TopicMachineLearning, TopicUnderstanding, TopicRoboticsClub}

\* What the topic field of the form may hold when the form is submitted.
FieldValues == Topics \cup {<<>>, <<" ", " ">>}

\* The three options of the depth field, and a value that is none of them.
Depths == {"basic", "detailed", "comprehensive", "exhaustive"}

\* Math.random() in thousandths: the values the model draws.
RandomDraws == {0, 999}

(***************************************************************************)
(* MockAPIService: filtering (lines 473-513)                               *)
(***************************************************************************)
Min(a, b) == IF a < b THEN a ELSE b

\* The matches counter of calculateRelevance (lines 502-510).
countMatches(topic, content) ==
  LET topicWords   == split(toLowerCase(topic))
      contentWords == split(toLowerCase(content))
  IN  [matches |->
         Cardinality({w \in 1..Len(topicWords) :
            \E c \in 1..Len(contentWords) :
               \/ includes(contentWords[c], topicWords[w])
               \/ includes(topicWords[w], contentWords[c])}),
       words |-> Len(topicWords)]

\* The substring tests of the filter (lines 479-480, 493-494).
textIncludes(article, topic) ==
  \/ includes(toLowerCase(TextOf(article).title), toLowerCase(topic))
  \/ includes(toLowerCase(TextOf(article).summary), toLowerCase(topic))

AllArticles ==
  {generateWikipediaData[i] : i \in 1..Len(generateWikipediaData)}
    \cup {generateHackerNewsData[i] : i \in 1..Len(generateHackerNewsData)}

\* Both are functions of immutable text: computed once per (topic, article).
matchesOf ==
  [t \in Topics |-> [a \in AllArticles |->
     countMatches(t, TextOf(a).title \o <<" ">> \o TextOf(a).summary)]]

includedIn ==
  [t \in Topics |-> [a \in AllArticles |-> textIncludes(a, t)]]

\* A calculateRelevance whose jitter is Math.random() * 0.5: the variant of
\* calculateRelevance that C24 is tried against.
calculateRelevanceWideJitter(topic, article, random) ==
  LET m == matchesOf[topic][article]
  IN  [num |-> Min(m.matches * 10000 + 5 * random * m.words, 10000 * m.words),
       den |-> 10000 * m.words]

\* calculateRelevance (line 512) with Math.random() = random/1000:
\* Math.min(matches / topicWords.length + random * 0.3, 1), as the fraction
\* num/den with den = 10000 * topicWords.length.
calculateRelevance(topic, article, random) ==
  LET m == matchesOf[topic][article]
  IN  [num |-> Min(m.matches * 10000 + 3 * random * m.words, 10000 * m.words),
       den |-> 10000 * m.words]

\* A filter that admits every score greater than 0: the variant of
\* aboveThreshold that C23 is tried against.
aboveZero(score) == score.num > 0

\* score > 0.3
aboveThreshold(score) == score.num * 10 > 3 * score.den

\* The filter predicate of fetchWikipediaArticles / fetchHackerNewsArticles.
isRelevant(topic, article, random) ==
  \/ includedIn[topic][article]
  \/ aboveThreshold(calculateRelevance(topic, article, random))

\* Array.prototype.filter, with draws[key] the value Math.random() returns
\* in the call made for the article at position key.
RECURSIVE filterRelevant(_, _, _)
filterRelevant(data, topic, draws) ==
  IF data = <<>> THEN <<>>
  ELSE (IF isRelevant(topic, Head(data), draws[Head(data).key])
          THEN <<Head(data)>> ELSE <<>>)
       \o filterRelevant(Tail(data), topic, draws)

WikipediaLimit == 8

HackerNewsLimit == 7

\* A fetch without the slice of line 484: the variant of
\* fetchWikipediaArticles that C25 is tried against.
fetchWikipediaArticlesUncut(data, topic, draws) ==
  filterRelevant(data, topic, draws)

fetchWikipediaArticles(data, topic, draws) ==
  slice(filterRelevant(data, topic, draws), WikipediaLimit)

fetchHackerNewsArticles(data, topic, draws) ==
  slice(filterRelevant(data, topic, draws), HackerNewsLimit)

(***************************************************************************)
(* JavaScript values                                                       *)
(***************************************************************************)
Undefined == [k |-> "undefined"]

Null == [k |-> "null"]

\* A Date object holding a time value in milliseconds, and the Invalid Date.
DateOf(ms) == [k |-> "date", ms |-> ms]

InvalidDate == [k |-> "invalid"]

\* Truthiness of the values the code tests with `x ? ... : ...` and `!x`.
Truthy(v) == v.k \notin {"undefined", "null"}

(***************************************************************************)
(* JSON: JSON.stringify, JSON.parse and the Date conversions               *)
(***************************************************************************)
MsPerSecond == 1000

\* A toJSON that writes whole seconds only: the variant of DateToJSON that
\* C9 is tried against.
DateToJSONSeconds(d) ==
  IF d.k = "date"
    THEN [k |-> "string", seconds |-> d.ms \div MsPerSecond, millis |-> 0]
    ELSE Null

\* Date.prototype.toJSON: the ISO-8601 text of a valid date (its seconds and
\* milliseconds fields), null for the Invalid Date.
DateToJSON(d) ==
  IF d.k = "date"
    THEN [k |-> "string", seconds |-> d.ms \div MsPerSecond,
          millis |-> d.ms % MsPerSecond]
    ELSE Null

\* new Date(v) for a value v read back from JSON: an ISO-8601 string gives its
\* instant, null gives the epoch, undefined gives the Invalid Date.
NewDate(v) ==
  IF v.k = "string" THEN DateOf(v.seconds * MsPerSecond + v.millis)
  ELSE IF v.k = "null" THEN DateOf(0)
  ELSE InvalidDate

\* JSON.stringify of one object of the history.  A Date becomes its toJSON
\* value; a property whose value is undefined is left out, and so reads as
\* undefined after parsing; every other property is copied by value.
StringifyObject(o) ==
  IF o.shape \in {"research", "partial"}
    THEN [o EXCEPT !.startTime = DateToJSON(o.startTime),
                   !.endTime = IF o.endTime.k \in {"date", "invalid"}
                                 THEN DateToJSON(o.endTime) ELSE o.endTime]
    ELSE [o EXCEPT !.startTime = DateToJSON(o.startTime)]

\* JSON.stringify(array of objects), as the parsed form of the text written.
Stringify(objects) ==
  [t |-> "array",
   items |-> [i \in 1..Len(objects) |->
                [t |-> "object", o |-> StringifyObject(objects[i])]]]

(***************************************************************************)
(* localStorage: the item 'aiResearchHistory'                              *)
(***************************************************************************)
\* getItem returns null
NoItem == [k |-> "none"]

\* the item is the empty string
EmptyItem == [k |-> "empty"]

\* the item is text JSON.parse rejects
MalformedItem == [k |-> "malformed"]

\* the item is JSON text that parses to value
JsonItem(value) == [k |-> "json", value |-> value]

\* An object of another writer that has an id, the status completed and an
\* empty logs array, and none of the other properties of a research object
\* (they read as undefined).  Its id is one generateId never returns.
PartialObject ==
  [shape |-> "partial", id |-> 0, status |-> "completed", logs |-> <<>>,
   topic |-> Undefined, depth |-> Undefined, startTime |-> Undefined,
   endTime |-> Undefined, progress |-> Undefined, currentStep |-> Undefined,
   results |-> Undefined, rawData |-> Undefined, processedData |-> Undefined]

\* Items an earlier writer may have left in storage before the page loads:
\* nothing, the empty array, malformed text, JSON values that are no array
\* (null, a number, an object), an array holding null, an array of numbers,
\* an array holding a partial object.
StoredBefore ==
  {NoItem, EmptyItem, MalformedItem,
   JsonItem([t |-> "null"]), JsonItem([t |-> "number"]),
   JsonItem([t |-> "object", o |-> [shape |-> "other"]]),
   JsonItem([t |-> "array", items |-> <<>>]),
   JsonItem([t |-> "array", items |-> <<[t |-> "null"]>>]),
   JsonItem([t |-> "array", items |-> <<[t |-> "number"]>>]),
   JsonItem([t |-> "array", items |-> <<[t |-> "object", o |-> PartialObject]>>])}

\* The callback of parsed.map in loadHistory (lines 449-453) for one element:
\* {...research, startTime: new Date(research.startTime),
\*  endTime: research.endTime ? new Date(research.endTime) : null}.
\* Spreading a number gives no properties, and its startTime and endTime
\* read as undefined.
ReviveElement(e) ==
  IF e.t = "object"
    THEN [e.o EXCEPT !.startTime = NewDate(e.o.startTime),
                     !.endTime = IF Truthy(e.o.endTime)
                                   THEN NewDate(e.o.endTime) ELSE Null]
    ELSE [shape |-> "bare", startTime |-> NewDate(Undefined), endTime |-> Null]

\* A loadHistory whose callback guards against null elements (research &&
\* research.startTime), so that nothing is thrown for them: the variant of
\* LoadThrows that C10 is tried against.
LoadThrowsNotOnNull(item) ==
  \/ item.k = "malformed"
  \/ item.k = "json" /\ item.value.t # "array"

\* Whether the body of the try block of loadHistory throws: JSON.parse on
\* malformed text, parsed.map on a value that has no map method (null, a
\* number, an object), research.startTime on a null element.
LoadThrows(item) ==
  \/ item.k = "malformed"
  \/ /\ item.k = "json"
     /\ \/ item.value.t # "array"
        \/ \E i \in 1..Len(item.value.items) : item.value.items[i].t = "null"

\* loadHistory (lines 443-459): the objects it returns, in order.
loadHistory(item) ==
  IF item.k \in {"none", "empty"} \/ LoadThrows(item)
    THEN <<>>
    ELSE [i \in 1..Len(item.value.items) |-> ReviveElement(item.value.items[i])]

\* saveHistory (lines 435-441): what the item is after the call; setItem
\* throws when the storage refuses the write (quota), and the catch block
\* leaves the item as it was.
saveHistory(item, objects, accepted) ==
  IF accepted THEN JsonItem(Stringify(objects)) ELSE item

(***************************************************************************)
(* AIResearchAgent: pure helpers                                           *)
(***************************************************************************)
\* The steps table of runResearchWorkflow (lines 67-73).
steps ==
  <<[name |-> "Input Parsing", duration |-> 1000],
    [name |-> "Data Gathering", duration |-> 3000],
    [name |-> "Processing", duration |-> 4000],
    [name |-> "Result Persistence", duration |-> 1500],
    [name |-> "Return Results", duration |-> 1000]>>

\* The delays of the two provider calls (lines 475, 489).
WikipediaDelay == 1000

HackerNewsDelay == 1200

\* A log message: its fixed text and the values interpolated into it.
Message(text, args) == [text |-> text, args |-> args]

\* An addLog that puts the entry at the front (unshift for push): the
\* variant of addLog that C14 is tried against.
addLogAtFront(o, t, message) ==
  [o EXCEPT !.logs = <<[timestamp |-> t \div MsPerSecond,
                        message |-> message]>> \o @]

\* addLog (lines 386-392) on object o at time t; toLocaleTimeString keeps
\* the time to the second.
addLog(o, t, message) ==
  [o EXCEPT !.logs = Append(@, [timestamp |-> t \div MsPerSecond,
                                message |-> message])]

RECURSIVE addLogs(_, _, _)
addLogs(o, t, messages) ==
  IF messages = <<>> THEN o
  ELSE addLogs(addLog(o, t, Head(messages)), t, Tail(messages))

\* depthMap[depth] (line 149-150): 0 stands for undefined.
depthMap(depth) ==
  CASE depth = "basic" -> 5
    [] depth = "detailed" -> 10
    [] depth = "comprehensive" -> 15
    [] OTHER -> 0

\* An insertion that places an element before the elements of equal
\* relevance already placed (a sort that is not stable): the variant of
\* insertByRelevance that C22 is tried against.
insertBeforeEqual(sorted, x) ==
  LET n == Cardinality({i \in 1..Len(sorted) : sorted[i].relevance > x.relevance})
  IN  SubSeq(sorted, 1, n) \o <<x>> \o SubSeq(sorted, n + 1, Len(sorted))

\* Array.prototype.sort((a, b) => b.relevance - a.relevance): descending by
\* relevance and stable, so an element is placed behind every element
\* already placed whose relevance is not smaller.
insertByRelevance(sorted, x) ==
  LET n == Cardinality({i \in 1..Len(sorted) : sorted[i].relevance >= x.relevance})
  IN  SubSeq(sorted, 1, n) \o <<x>> \o SubSeq(sorted, n + 1, Len(sorted))

RECURSIVE sortFrom(_, _)
sortFrom(sorted, rest) ==
  IF rest = <<>> THEN sorted
  ELSE sortFrom(insertByRelevance(sorted, Head(rest)), Tail(rest))

\* A processData that leaves the merged array in the order of the providers:
\* the variant of sortByRelevance that C7 is tried against.
sortOmitted(a) == a

sortByRelevance(a) == sortFrom(<<>>, a)

\* A processData without the slice of line 160: the variant of topSourcesOf
\* that C6 is tried against.
topSourcesUncut(allSources, maxArticles) == sortByRelevance(allSources)

\* slice(0, maxArticles): slice(0, undefined) keeps the whole array.
topSourcesOf(allSources, maxArticles) ==
  IF maxArticles = 0
    THEN sortByRelevance(allSources)
    ELSE slice(sortByRelevance(allSources), maxArticles)

\* generateSummary (lines 289-302): a fixed text with the number of sources
\* and the topic interpolated; SummaryTextLength is the length of the fixed
\* text.
generateSummary(topic, sources) == [sourceCount |-> Len(sources), topic |-> topic]

SummaryTextLength == 1019

summaryLength(summary) ==
  SummaryTextLength + (IF summary.sourceCount < 10 THEN 1 ELSE 2)
    + Len(summary.topic)

additionalKeywords ==
  <<<<"a","r","t","i","f","i","c","i","a","l"," ","i","n","t","e","l","l","i","g","e","n","c","e">>,
    <<"m","a","c","h","i","n","e"," ","l","e","a","r","n","i","n","g">>,
    <<"t","e","c","h","n","o","l","o","g","y">>,
    <<"i","n","n","o","v","a","t","i","o","n">>,
    <<"r","e","s","e","a","r","c","h">>,
    <<"d","e","v","e","l","o","p","m","e","n","t">>,
    <<"a","n","a","l","y","s","i","s">>,
    <<"t","r","e","n","d","s">>,
    <<"f","u","t","u","r","e">>,
    <<"a","p","p","l","i","c","a","t","i","o","n","s">>,
    <<"i","n","d","u","s","t","r","y">>,
    <<"m","a","r","k","e","t">>,
    <<"g","r","o","w","t","h">>,
    <<"c","h","a","l","l","e","n","g","e","s">>,
    <<"o","p","p","o","r","t","u","n","i","t","i","e","s">>,
    <<"s","o","l","u","t","i","o","n","s">>>>

\* [...new Set(a)]: the first occurrence of every value, in order.
RECURSIVE unique(_)
unique(a) ==
  IF a = <<>> THEN <<>>
  ELSE LET front == unique(SubSeq(a, 1, Len(a) - 1))
           last  == a[Len(a)]
       IN  IF \E i \in 1..Len(front) : front[i] = last
             THEN front ELSE Append(front, last)

KeywordLimit == 12

\* An extractKeywords that puts the fixed keywords before those of the
\* topic: the variant of extractKeywords that C26 is tried against.
extractKeywordsFixedFirst(topic, sources) ==
  LET baseKeywords == split(toLowerCase(topic))
      allKeywords  == additionalKeywords \o baseKeywords
  IN  slice(unique(allKeywords), KeywordLimit)

\* extractKeywords (lines 304-319)
extractKeywords(topic, sources) ==
  LET baseKeywords == split(toLowerCase(topic))
      allKeywords  == baseKeywords \o additionalKeywords
  IN  slice(unique(allKeywords), KeywordLimit)

(***************************************************************************)
(* State                                                                   *)
(***************************************************************************)
VARIABLES
  heap,             \* the objects created so far, by address 1..Len(heap)
  currentResearch,  \* this.currentResearch: an address, 0 for null
  researchHistory,  \* this.researchHistory: an array of addresses
  wikipediaData,    \* this.mockAPIs.wikipediaData
  hackerNewsData,   \* this.mockAPIs.hackerNewsData
  storage,          \* the localStorage item 'aiResearchHistory'
  flows,            \* the calls of startResearch made on this page
  dom,              \* what the page shows
  now,              \* Date.now()
  nextId,           \* the number of the next id generateId returns
  requests,         \* the <<topic field, depth>> pairs this user submits
  runsLeft,         \* how many calls of startResearch the model still explores
  clicksLeft,       \* how many history items it still lets the user open
  reloads           \* how often the page has been reloaded

vars == <<heap, currentResearch, researchHistory, wikipediaData, hackerNewsData,
          storage, flows, dom, now, nextId, requests, runsLeft, clicksLeft,
          reloads>>

catalogs == <<wikipediaData, hackerNewsData>>

budget == <<requests, runsLeft, clicksLeft, reloads>>

\* Bounds of the model: the calls of startResearch of a user who repeats a
\* few requests, those of a user who may make any request, the history items
\* opened, and the page reloads.
MaxRuns == 2

MaxClicks == 1

MaxRunsAnyRequest == 1

MaxReloads == 1

\* A research object that is created with endTime set to the time of its
\* creation: the variant of NewResearch that C19 is tried against.
NewResearchEnded(id, topic, depth, t) ==
  [shape |-> "research", id |-> id, topic |-> topic, depth |-> depth,
   status |-> "running", startTime |-> DateOf(t), endTime |-> DateOf(t),
   progress |-> 0, currentStep |-> 1, logs |-> <<>>, results |-> Null,
   rawData |-> Undefined, processedData |-> Undefined]

\* The object startResearch creates (lines 46-56); generateId (line 428) is
\* taken to return a fresh id on every call.  rawData and processedData are
\* not properties yet: they read as undefined.
NewResearch(id, topic, depth, t) ==
  [shape |-> "research", id |-> id, topic |-> topic, depth |-> depth,
   status |-> "running", startTime |-> DateOf(t), endTime |-> Undefined,
   progress |-> 0, currentStep |-> 1, logs |-> <<>>, results |-> Null,
   rawData |-> Undefined, processedData |-> Undefined]

\* The page before any script has changed it.
InitialDom ==
  [formDisabled |-> FALSE, progressSection |-> FALSE, resultsSection |-> FALSE,
   displayed |-> 0, alertOpen |-> FALSE]

\* The objects at the addresses of an array, by value.
ObjectsOf(h, addresses) == [i \in 1..Len(addresses) |-> h[addresses[i]]]

\* The constructor (lines 4-9) on a page whose storage holds item.
Construct(item) ==
  /\ currentResearch = 0
  /\ heap = loadHistory(item)
  /\ researchHistory = [i \in 1..Len(loadHistory(item)) |-> i]
  /\ wikipediaData = generateWikipediaData
  /\ hackerNewsData = generateHackerNewsData
  /\ flows = <<>>
  /\ dom = InitialDom

\* What the user may type and select: anything, or a few requests that are
\* repeated on a browser whose storage held nothing.
AnyRequest == FieldValues \X Depths

RepeatedRequests ==
  {<<TopicMachineLearning, "basic">>, <<TopicUnderstanding, "exhaustive">>,
   <<<<" ", " ">>, "basic">>}

Init ==
  /\ storage \in StoredBefore
  /\ Construct(storage)
  /\ requests \in {AnyRequest, RepeatedRequests}
  /\ requests = RepeatedRequests => storage = NoItem
  /\ runsLeft = IF requests = RepeatedRequests THEN MaxRuns ELSE MaxRunsAnyRequest
  /\ clicksLeft = MaxClicks
  /\ now = 1
  /\ nextId = 1
  /\ reloads = 0

(***************************************************************************)
(* The event loop.  A flow is one call of startResearch: an async function *)
(* that is suspended at an await.  pc names the await:                     *)
(*   "delay"           await this.delay(step.duration)          (line 92)  *)
(*   "fetchWikipedia"  await this.delay(1000)                   (line 475) *)
(*   "fetchHackerNews" await this.delay(1200)                   (line 489) *)
(*   "resumeStep"      await this.parseInput() ... of executeStep, whose   *)
(*                     promise is settled               (lines 97-109)     *)
(*   "resumeLoop"      await this.executeStep(...), settled     (line 76)  *)
(*   "rejected"        the promise of the call is rejected                 *)
(* A timer callback, a form submission, a click and a reload are tasks; a  *)
(* continuation behind a settled promise is a microtask and runs before    *)
(* the next task.  alert() blocks the page until the dialog is dismissed.  *)
(* A timer fires at the time it expires (due), the earliest first and, of  *)
(* two that expire together, either first; the user acts at a time at.     *)
(* step is stepNumber; topic is the argument of the provider call in       *)
(* flight; sources is the local of gatherData; record is                   *)
(* the address of the object the call created (kept for the properties,    *)
(* the code does not keep it).                                             *)
(***************************************************************************)
MicrotaskPending ==
  \E f \in 1..Len(flows) : flows[f].pc \in {"resumeStep", "resumeLoop"}

TaskMayRun == ~MicrotaskPending /\ ~dom.alertOpen

\* The flows that wait for a timer.
Waiting == {f \in 1..Len(flows) :
              flows[f].pc \in {"delay", "fetchWikipedia", "fetchHackerNews"}}

\* The timer of flow f is one of those that expire next.
TimerMayFire(f) ==
  /\ TaskMayRun
  /\ f \in Waiting
  /\ \A e \in Waiting : flows[f].due <= flows[e].due

\* The times at which the user may act next: not after the next timer
\* expires, on a grid of TimeGrid milliseconds from the last event; at once
\* when no timer is set.
TimeGrid == 1000

UserTimes ==
  IF Waiting = {} THEN {now}
  ELSE {t \in now..(CHOOSE d \in {flows[e].due : e \in Waiting} :
                       \A e \in Waiting : d <= flows[e].due) :
          (t - now) % TimeGrid = 0}

\* The first lines of executeStep (lines 85-89), up to the delay.
executeStepStart(o, t, stepNumber) ==
  addLog([o EXCEPT !.currentStep = stepNumber], t,
         Message("Starting ...", <<steps[stepNumber].name>>))

\* showResults (lines 213-233) for object o at address a: the page after it,
\* and whether populateResults throws (endTime.toLocaleString() at line 241
\* or results.summary at line 245, both after lines 215-239 and before
\* enableForm).
showResultsThrows(o) ==
  o.endTime.k \notin {"date", "invalid"} \/ ~Truthy(o.results)

showResults(d, a, o) ==
  IF showResultsThrows(o)
    THEN [d EXCEPT !.progressSection = FALSE, !.resultsSection = TRUE,
                   !.displayed = a]
    ELSE [d EXCEPT !.progressSection = FALSE, !.resultsSection = TRUE,
                   !.displayed = a, !.formDisabled = FALSE]

(***************************************************************************)
(* Tasks: form submission                                                  *)
(***************************************************************************)
\* startResearch (lines 44-64) up to the first await: the new object, the
\* progress section, the disabled form, and executeStep(1) up to its delay.
startResearch(topic, depth) ==
  /\ heap' = Append(heap, executeStepStart(NewResearch(nextId, topic, depth, now'), now', 1))
  /\ currentResearch' = Len(heap) + 1
  /\ dom' = [dom EXCEPT !.progressSection = TRUE, !.formDisabled = TRUE]
  /\ flows' = Append(flows, [pc |-> "delay", step |-> 1, due |-> now' + steps[1].duration,
                             topic |-> <<>>, sources |-> <<>>,
                             record |-> Len(heap) + 1])
  /\ nextId' = nextId + 1
  /\ runsLeft' = runsLeft - 1
  /\ UNCHANGED <<researchHistory, storage, catalogs, requests, clicksLeft,
                 reloads>>

\* A handleSubmit that tests the value of the field before trimming it: the
\* variant of handleSubmit that C8 is tried against.
handleSubmitUntrimmed(value, depth, at) ==
  /\ TaskMayRun
  /\ now' = at
  /\ IF value = <<>>
       THEN /\ dom' = [dom EXCEPT !.alertOpen = TRUE]
            /\ UNCHANGED <<heap, currentResearch, researchHistory, storage, flows,
                           nextId, catalogs, budget>>
       ELSE /\ runsLeft > 0
            /\ startResearch(trim(value), depth)

\* handleSubmit (lines 30-42) with the topic field holding value.  The
\* listener (line 19) runs for every submit event the form receives:
\* disableForm (lines 374-378) disables the controls, which stops neither
\* form.requestSubmit() nor a call of the method, and the code itself tests
\* nothing but the topic.
handleSubmit(value, depth, at) ==
  /\ TaskMayRun
  /\ now' = at
  /\ IF trim(value) = <<>>
       THEN /\ dom' = [dom EXCEPT !.alertOpen = TRUE]
            /\ UNCHANGED <<heap, currentResearch, researchHistory, storage, flows,
                           nextId, catalogs, budget>>
       ELSE /\ runsLeft > 0
            /\ startResearch(trim(value), depth)

\* The user dismisses the dialog of showError (line 462); handleSubmit
\* returns (line 38).
dismissAlert ==
  /\ dom.alertOpen
  /\ dom' = [dom EXCEPT !.alertOpen = FALSE]
  /\ UNCHANGED <<heap, currentResearch, researchHistory, storage, flows,
                 now, nextId, catalogs, budget>>

(***************************************************************************)
(* Tasks: the timer of executeStep fires (line 92) and the step's own      *)
(* function runs (lines 95-111) up to its first await or to its end        *)
(***************************************************************************)
AtDelay(f, stepNumber) ==
  /\ TimerMayFire(f)
  /\ flows[f].pc = "delay"
  /\ flows[f].step = stepNumber

\* parseInput (lines 122-126)
parseInput(f) ==
  /\ AtDelay(f, 1)
  /\ now' = flows[f].due
  /\ heap' = [heap EXCEPT ![currentResearch] =
       addLogs(@, now',
         <<Message("Validating research topic: ", heap[currentResearch].topic),
           Message("Research depth set to: ", <<heap[currentResearch].depth>>),
           Message("Input validation completed", <<>>)>>)]
  /\ flows' = [flows EXCEPT ![f].pc = "resumeStep"]
  /\ UNCHANGED <<currentResearch, researchHistory, storage, dom, nextId,
                 catalogs, budget>>

\* gatherData (lines 128-132) up to the delay of fetchWikipediaArticles.
gatherData(f) ==
  /\ AtDelay(f, 2)
  /\ now' = flows[f].due
  /\ heap' = [heap EXCEPT ![currentResearch] =
       addLog(@, now', Message("Fetching data from external APIs...", <<>>))]
  /\ flows' = [flows EXCEPT ![f].pc = "fetchWikipedia",
                            ![f].due = now' + WikipediaDelay,
                            ![f].topic = heap[currentResearch].topic]
  /\ UNCHANGED <<currentResearch, researchHistory, storage, dom, nextId,
                 catalogs, budget>>

\* The draws of Math.random() of one provider call.  A draw that cannot
\* change the result (the article is admitted or refused whatever is drawn)
\* is fixed at the least value.
DrawDecides(topic, article) ==
  \E r1, r2 \in RandomDraws : isRelevant(topic, article, r1) # isRelevant(topic, article, r2)

LeastDraw == CHOOSE r \in RandomDraws : \A q \in RandomDraws : r <= q

DrawsFor(data, topic) ==
  LET deciding == {k \in 1..Len(data) : DrawDecides(topic, data[k])}
  IN  {[k \in 1..Len(data) |-> IF k \in deciding THEN d[k] ELSE LeastDraw] :
         d \in [deciding -> RandomDraws]}

\* A gatherData that does not await the HackerNews fetch: when the Wikipedia
\* fetch returns, rawData is written with the promise of the other fetch and
\* the stage ends.  The variant of wikipediaFetched that C15 is tried
\* against.
wikipediaFetchedNoJoin(f) ==
  /\ TimerMayFire(f)
  /\ flows[f].pc = "fetchWikipedia"
  /\ now' = flows[f].due
  /\ flows[f].topic # Undefined
  /\ \E draws \in DrawsFor(wikipediaData, flows[f].topic) :
       heap' = [heap EXCEPT ![currentResearch] =
         addLog([@ EXCEPT !.rawData =
                   [k |-> "object",
                    wikipedia |-> fetchWikipediaArticles(wikipediaData, flows[f].topic, draws),
                    hackernews |-> <<>>]],
                now', Message("Data gathering completed", <<>>))]
  /\ flows' = [flows EXCEPT ![f].pc = "resumeStep", ![f].topic = <<>>]
  /\ UNCHANGED <<currentResearch, researchHistory, storage, dom, nextId,
                 catalogs, budget>>

\* The timer of fetchWikipediaArticles fires (lines 477-484); gatherData goes
\* on to call fetchHackerNewsArticles (line 133).  topic.toLowerCase() of a
\* topic that is undefined throws a TypeError in the first callback of the
\* filter (line 478): the fetch fails, and nothing between it and the caller
\* of startResearch catches.
wikipediaFetched(f) ==
  /\ TimerMayFire(f)
  /\ flows[f].pc = "fetchWikipedia"
  /\ now' = flows[f].due
  /\ IF flows[f].topic = Undefined
       THEN flows' = [flows EXCEPT ![f].pc = "rejected", ![f].topic = <<>>]
       ELSE \E draws \in DrawsFor(wikipediaData, flows[f].topic) :
              flows' = [flows EXCEPT
                ![f].pc = "fetchHackerNews",
                ![f].due = now' + HackerNewsDelay,
                ![f].sources = fetchWikipediaArticles(wikipediaData, flows[f].topic, draws),
                ![f].topic = heap[currentResearch].topic]
  /\ UNCHANGED <<heap, currentResearch, researchHistory, storage, dom,
                 nextId, catalogs, budget>>

\* A fetchHackerNewsArticles that takes the articles it returns out of the
\* catalog (splice for filter and slice): the variant of hackerNewsFetched
\* that C30 is tried against.
hackerNewsFetchedConsuming(f) ==
  /\ TimerMayFire(f)
  /\ flows[f].pc = "fetchHackerNews"
  /\ now' = flows[f].due
  /\ IF flows[f].topic = Undefined
       THEN /\ heap' = heap
            /\ hackerNewsData' = hackerNewsData
            /\ flows' = [flows EXCEPT ![f].pc = "rejected", ![f].sources = <<>>,
                                      ![f].topic = <<>>]
       ELSE /\ \E draws \in DrawsFor(hackerNewsData, flows[f].topic) :
                 LET news == fetchHackerNewsArticles(hackerNewsData, flows[f].topic, draws)
                     sources == flows[f].sources
                     taken(article) == \E i \in 1..Len(news) : news[i] = article
                     left(article) == ~taken(article)
                 IN  /\ hackerNewsData' = SelectSeq(hackerNewsData, left)
                     /\ heap' = [heap EXCEPT ![currentResearch] =
                          addLogs([@ EXCEPT !.rawData = [k |-> "object", wikipedia |-> sources,
                                                         hackernews |-> news]],
                            now',
                            <<Message("Found ... Wikipedia articles", <<ToString(Len(sources))>>),
                              Message("Found ... HackerNews articles", <<ToString(Len(news))>>),
                              Message("Data gathering completed", <<>>)>>)]
            /\ flows' = [flows EXCEPT ![f].pc = "resumeStep", ![f].sources = <<>>,
                                      ![f].topic = <<>>]
  /\ UNCHANGED <<currentResearch, researchHistory, storage, dom, nextId,
                 wikipediaData, budget>>

\* The timer of fetchHackerNewsArticles fires (lines 491-498); gatherData
\* runs to its end (lines 135-142).
hackerNewsFetched(f) ==
  /\ TimerMayFire(f)
  /\ flows[f].pc = "fetchHackerNews"
  /\ now' = flows[f].due
  /\ IF flows[f].topic = Undefined
       THEN /\ heap' = heap
            /\ flows' = [flows EXCEPT ![f].pc = "rejected", ![f].sources = <<>>,
                                      ![f].topic = <<>>]
       ELSE /\ \E draws \in DrawsFor(hackerNewsData, flows[f].topic) :
                 LET news == fetchHackerNewsArticles(hackerNewsData, flows[f].topic, draws)
                     sources == flows[f].sources
                 IN  heap' = [heap EXCEPT ![currentResearch] =
                       addLogs([@ EXCEPT !.rawData = [k |-> "object", wikipedia |-> sources,
                                                      hackernews |-> news]],
                         now',
                         <<Message("Found ... Wikipedia articles", <<ToString(Len(sources))>>),
                           Message("Found ... HackerNews articles", <<ToString(Len(news))>>),
                           Message("Data gathering completed", <<>>)>>)]
            /\ flows' = [flows EXCEPT ![f].pc = "resumeStep", ![f].sources = <<>>,
                                      ![f].topic = <<>>]
  /\ UNCHANGED <<currentResearch, researchHistory, storage, dom, nextId,
                 catalogs, budget>>

\* A processData that breaks the ties of the ranking by a random draw: the
\* variant of processData that C28 is tried against.
processDataRandomTies(f) ==
  /\ AtDelay(f, 3)
  /\ now' = flows[f].due
  /\ \E random \in RandomDraws :
     LET o  == addLog(heap[currentResearch], now',
                      Message("Processing and analyzing collected data...", <<>>))
         maxArticles == depthMap(o.depth)
         allSources  == o.rawData.wikipedia \o o.rawData.hackernews
         topSources  == IF random = LeastDraw
                          THEN topSourcesOf(allSources, maxArticles)
                          ELSE topSourcesOf(o.rawData.hackernews \o o.rawData.wikipedia,
                                            maxArticles)
         summary     == generateSummary(o.topic, topSources)
         keywords    == extractKeywords(o.topic, topSources)
     IN  IF o.rawData = Undefined \/ o.topic = Undefined
           THEN /\ heap' = [heap EXCEPT ![currentResearch] = o]
                /\ flows' = [flows EXCEPT ![f].pc = "rejected"]
           ELSE /\ heap' = [heap EXCEPT ![currentResearch] =
                     addLogs([o EXCEPT !.processedData =
                                [k |-> "object", sources |-> topSources,
                                 summary |-> summary, keywords |-> keywords]],
                       now',
                       <<Message("Processed ... top articles", <<ToString(Len(topSources))>>),
                         Message("Generated summary (... characters)",
                                 <<ToString(summaryLength(summary))>>),
                         Message("Extracted ... keywords", <<ToString(Len(keywords))>>),
                         Message("Data processing completed", <<>>)>>)]
                /\ flows' = [flows EXCEPT ![f].pc = "resumeStep"]
  /\ UNCHANGED <<currentResearch, researchHistory, storage, dom, nextId,
                 catalogs, budget>>

\* processData (lines 145-178).  rawData.wikipedia of an object that has no
\* rawData throws a TypeError (line 153), and so does topic.toLowerCase() of
\* an object that has no topic (line 306, called at line 166), both after
\* the first log and before processedData is set.
processData(f) ==
  /\ AtDelay(f, 3)
  /\ now' = flows[f].due
  /\ LET o  == addLog(heap[currentResearch], now',
                      Message("Processing and analyzing collected data...", <<>>))
         maxArticles == depthMap(o.depth)
         allSources  == o.rawData.wikipedia \o o.rawData.hackernews
         topSources  == topSourcesOf(allSources, maxArticles)
         summary     == generateSummary(o.topic, topSources)
         keywords    == extractKeywords(o.topic, topSources)
     IN  IF o.rawData = Undefined \/ o.topic = Undefined
           THEN /\ heap' = [heap EXCEPT ![currentResearch] = o]
                /\ flows' = [flows EXCEPT ![f].pc = "rejected"]
           ELSE /\ heap' = [heap EXCEPT ![currentResearch] =
                     addLogs([o EXCEPT !.processedData =
                                [k |-> "object", sources |-> topSources,
                                 summary |-> summary, keywords |-> keywords]],
                       now',
                       <<Message("Processed ... top articles", <<ToString(Len(topSources))>>),
                         Message("Generated summary (... characters)",
                                 <<ToString(summaryLength(summary))>>),
                         Message("Extracted ... keywords", <<ToString(Len(keywords))>>),
                         Message("Data processing completed", <<>>)>>)]
                /\ flows' = [flows EXCEPT ![f].pc = "resumeStep"]
  /\ UNCHANGED <<currentResearch, researchHistory, storage, dom, nextId,
                 catalogs, budget>>

\* A persistResults whose saveHistory has no try and catch, so that a
\* refused write is thrown out of stage 4 after the unshift: the variant of
\* persistResults that C11 is tried against.
persistResultsUncaught(f, accepted) ==
  /\ AtDelay(f, 4)
  /\ now' = flows[f].due
  /\ LET o == addLog(heap[currentResearch], now',
                     Message("Saving results to local storage...", <<>>))
         withResults == [o EXCEPT !.results =
           [k |-> "object",
            summary  |-> o.processedData.summary,
            sources  |-> o.processedData.sources,
            keywords |-> o.processedData.keywords,
            metadata |-> [totalSources   |-> Len(o.processedData.sources),
                          researchDepth  |-> o.depth,
                          processingTime |-> now' - o.startTime.ms]]]
         history == <<currentResearch>> \o researchHistory
     IN  IF o.processedData = Undefined
           THEN /\ heap' = [heap EXCEPT ![currentResearch] = o]
                /\ flows' = [flows EXCEPT ![f].pc = "rejected"]
                /\ UNCHANGED <<researchHistory, storage>>
           ELSE /\ researchHistory' = history
                /\ storage' = saveHistory(storage,
                      ObjectsOf([heap EXCEPT ![currentResearch] = withResults], history),
                      accepted)
                /\ heap' = [heap EXCEPT ![currentResearch] =
                     IF accepted
                       THEN addLogs(withResults, now',
                              <<Message("Results saved successfully", <<>>),
                                Message("Research added to history", <<>>)>>)
                       ELSE withResults]
                /\ flows' = [flows EXCEPT ![f].pc =
                      IF accepted THEN "resumeStep" ELSE "rejected"]
  /\ UNCHANGED <<currentResearch, dom, nextId, catalogs, budget>>

\* persistResults (lines 180-200); accepted says whether localStorage takes
\* the write.  processedData.summary of an object that has no processedData
\* throws a TypeError (line 184), after the first log.
persistResults(f, accepted) ==
  /\ AtDelay(f, 4)
  /\ now' = flows[f].due
  /\ LET o  == addLog(heap[currentResearch], now',
                      Message("Saving results to local storage...", <<>>))
         withResults == [o EXCEPT !.results =
           [k |-> "object",
            summary  |-> o.processedData.summary,
            sources  |-> o.processedData.sources,
            keywords |-> o.processedData.keywords,
            metadata |-> [totalSources   |-> Len(o.processedData.sources),
                          researchDepth  |-> o.depth,
                          processingTime |-> now' - o.startTime.ms]]]
         history == <<currentResearch>> \o researchHistory
     IN  IF o.processedData = Undefined
           THEN /\ heap' = [heap EXCEPT ![currentResearch] = o]
                /\ flows' = [flows EXCEPT ![f].pc = "rejected"]
                /\ UNCHANGED <<researchHistory, storage>>
           ELSE /\ researchHistory' = history
                /\ storage' = saveHistory(storage,
                      ObjectsOf([heap EXCEPT ![currentResearch] = withResults], history),
                      accepted)
                /\ heap' = [heap EXCEPT ![currentResearch] =
                     addLogs(withResults, now',
                       <<Message("Results saved successfully", <<>>),
                         Message("Research added to history", <<>>)>>)]
                /\ flows' = [flows EXCEPT ![f].pc = "resumeStep"]
  /\ UNCHANGED <<currentResearch, dom, nextId, catalogs, budget>>

\* returnResults (lines 202-211) with showResults.
returnResults(f) ==
  /\ AtDelay(f, 5)
  /\ now' = flows[f].due
  /\ LET o == addLog(
               [addLog(heap[currentResearch], now',
                       Message("Preparing results for display...", <<>>))
                  EXCEPT !.status = "completed", !.endTime = DateOf(now')],
               now', Message("Research workflow completed successfully", <<>>))
     IN  /\ heap' = [heap EXCEPT ![currentResearch] = o]
         /\ dom' = showResults(dom, currentResearch, o)
         /\ flows' = [flows EXCEPT ![f].pc =
               IF showResultsThrows(o) THEN "rejected" ELSE "resumeStep"]
  /\ UNCHANGED <<currentResearch, researchHistory, storage, nextId,
                 catalogs, budget>>

(***************************************************************************)
(* Microtasks                                                              *)
(***************************************************************************)
\* An executeStep that sets progress from the zero-based index of the step:
\* the variant of resumeStep that C5 is tried against.
resumeStepIndexed(f) ==
  /\ flows[f].pc = "resumeStep"
  /\ heap' = [heap EXCEPT ![currentResearch] =
       [addLog(@, now, Message("... completed successfully", <<steps[flows[f].step].name>>))
          EXCEPT !.progress = ((flows[f].step - 1) * 100) \div Len(steps)]]
  /\ flows' = [flows EXCEPT ![f].pc = "resumeLoop"]
  /\ UNCHANGED <<currentResearch, researchHistory, storage, dom, now,
                 nextId, catalogs, budget>>

\* The end of executeStep (lines 113-119).
resumeStep(f) ==
  /\ flows[f].pc = "resumeStep"
  /\ heap' = [heap EXCEPT ![currentResearch] =
       [addLog(@, now, Message("... completed successfully", <<steps[flows[f].step].name>>))
          EXCEPT !.progress = (flows[f].step * 100) \div Len(steps)]]
  /\ flows' = [flows EXCEPT ![f].pc = "resumeLoop"]
  /\ UNCHANGED <<currentResearch, researchHistory, storage, dom, now,
                 nextId, catalogs, budget>>

\* The loop of runResearchWorkflow (lines 75-77): executeStep(i + 1) up to
\* its delay.
nextStep(f) ==
  /\ flows[f].pc = "resumeLoop"
  /\ flows[f].step < Len(steps)
  /\ heap' = [heap EXCEPT ![currentResearch] =
       executeStepStart(@, now, flows[f].step + 1)]
  /\ flows' = [flows EXCEPT ![f].pc = "delay", ![f].step = flows[f].step + 1,
                            ![f].due = now + steps[flows[f].step + 1].duration]
  /\ UNCHANGED <<currentResearch, researchHistory, storage, dom, now,
                 nextId, catalogs, budget>>

\* After the loop (line 80): the class has no method completeResearch, so
\* the call throws a TypeError and the promise of the flow is rejected.
completeResearch(f) ==
  /\ flows[f].pc = "resumeLoop"
  /\ flows[f].step = Len(steps)
  /\ flows' = [flows EXCEPT ![f].pc = "rejected"]
  /\ UNCHANGED <<heap, currentResearch, researchHistory, storage, dom,
                 now, nextId, catalogs, budget>>

(***************************************************************************)
(* Tasks: a click on a history item, a reload of the page                  *)
(***************************************************************************)
\* researchHistory.find(r => r.id === researchId) (line 415): the address of
\* the first entry with that id, 0 when there is none.
findById(researchId) ==
  LET hits == {i \in 1..Len(researchHistory) :
                 /\ heap[researchHistory[i]].shape \in {"research", "partial"}
                 /\ heap[researchHistory[i]].id = researchId}
  IN  IF hits = {} THEN 0
      ELSE researchHistory[CHOOSE i \in hits : \A j \in hits : i <= j]

\* A loadResearchFromHistory without the test of the status: it opens any
\* entry it finds.  The variant of loadResearchFromHistory that C18 is tried
\* against.
loadResearchFromHistoryAnyStatus(researchId, at) ==
  /\ TaskMayRun
  /\ now' = at
  /\ LET research == findById(researchId)
     IN  IF research = 0
           THEN UNCHANGED <<currentResearch, dom, clicksLeft>>
           ELSE /\ clicksLeft > 0
                /\ clicksLeft' = clicksLeft - 1
                /\ currentResearch' = research
                /\ dom' = showResults(dom, research, heap[research])
  /\ UNCHANGED <<heap, researchHistory, storage, flows, nextId, catalogs,
                 requests, runsLeft, reloads>>

\* loadResearchFromHistory (lines 414-420)
loadResearchFromHistory(researchId, at) ==
  /\ TaskMayRun
  /\ now' = at
  /\ LET research == findById(researchId)
     IN  IF research = 0 \/ heap[research].status # "completed"
           THEN UNCHANGED <<currentResearch, dom, clicksLeft>>
           ELSE /\ clicksLeft > 0
                /\ clicksLeft' = clicksLeft - 1
                /\ currentResearch' = research
                /\ dom' = showResults(dom, research, heap[research])
  /\ UNCHANGED <<heap, researchHistory, storage, flows, nextId, catalogs,
                 requests, runsLeft, reloads>>

\* The page is loaded again: the timers and the objects of the old page are
\* gone, and the constructor runs on what storage holds.
Reload(at) ==
  /\ ~MicrotaskPending
  /\ reloads < MaxReloads
  /\ now' = at
  /\ reloads' = reloads + 1
  /\ currentResearch' = 0
  /\ heap' = loadHistory(storage)
  /\ researchHistory' = [i \in 1..Len(loadHistory(storage)) |-> i]
  /\ wikipediaData' = generateWikipediaData
  /\ hackerNewsData' = generateHackerNewsData
  /\ flows' = <<>>
  /\ dom' = InitialDom
  /\ UNCHANGED <<storage, nextId, requests, runsLeft, clicksLeft>>

\* 0 is an id generateId never returned.
KnownIds == 0..(nextId - 1)

Next ==
  \/ \E request \in requests, at \in UserTimes :
        handleSubmit(request[1], request[2], at)
  \/ \E f \in 1..Len(flows) : parseInput(f)
  \/ \E f \in 1..Len(flows) : gatherData(f)
  \/ \E f \in 1..Len(flows) : wikipediaFetched(f)
  \/ \E f \in 1..Len(flows) : hackerNewsFetched(f)
  \/ \E f \in 1..Len(flows) : processData(f)
  \/ \E f \in 1..Len(flows), accepted \in BOOLEAN : persistResults(f, accepted)
  \/ \E f \in 1..Len(flows) : returnResults(f)
  \/ \E f \in 1..Len(flows) : resumeStep(f)
  \/ \E f \in 1..Len(flows) : nextStep(f)
  \/ \E f \in 1..Len(flows) : completeResearch(f)
  \/ dismissAlert
  \/ \E researchId \in KnownIds, at \in UserTimes :
        loadResearchFromHistory(researchId, at)
  \/ \E at \in UserTimes : Reload(at)

Spec == Init /\ [][Next]_vars

(***************************************************************************)
(* Properties                                                              *)
(***************************************************************************)
\* The addresses of the research objects (an array read from a foreign item
\* may hold objects of no such shape).
Records == {a \in 1..Len(heap) : heap[a].shape = "research"}

\* A call of startResearch whose workflow has not reached returnResults.
RunInProgress ==
  \E f \in 1..Len(flows) :
     /\ flows[f].pc # "rejected"
     /\ heap[flows[f].record].status = "running"

\* Some submission of the form is this step.
Submission ==
  \E request \in requests, at \in UserTimes :
     handleSubmit(request[1], request[2], at)

\* C1: a submission made while a run is in progress is rejected and changes
\* no state (the objects, the current research, the history, the stored
\* item, the calls in flight and the ids given out stay as they are).
C1_SecondSubmissionChangesNothing ==
  [][(RunInProgress /\ Submission) =>
       UNCHANGED <<heap, currentResearch, researchHistory, storage, flows,
                   nextId>>]_vars

\* C2: once the status of a record is completed, no step of the page changes
\* any field of it (a reload replaces the objects of the page and is left
\* out).
C2_CompletedRecordIsImmutable ==
  [][reloads' = reloads =>
       \A a \in Records :
          heap[a].status = "completed" => heap'[a] = heap[a]]_vars

\* C3: a completed record that the stored item holds is stored with status
\* completed and with its endTime, so that a page built from the stored item
\* can open it.
C3_CompletedRunIsStoredCompleted ==
  \A a \in Records :
     heap[a].status = "completed" =>
       \A i \in 1..Len(loadHistory(storage)) :
          LET stored == loadHistory(storage)[i]
          IN  (stored.shape = "research" /\ stored.id = heap[a].id) =>
                /\ stored.status = "completed"
                /\ stored.endTime = heap[a].endTime

\* Every call of startResearch was made after the record of the call before
\* it was completed: no two runs overlapped.
RunsInTurn ==
  \A f \in 1..(Len(flows) - 1) :
     /\ heap[flows[f].record].status = "completed"
     /\ heap[flows[f].record].endTime.ms <= heap[flows[f + 1].record].startTime.ms

\* C4: the currentStep of a record stays within 1..5 and never decreases,
\* here for runs that are started one after the other.
C4_CurrentStepNeverDecreases ==
  [][(reloads' = reloads /\ RunsInTurn) =>
       \A a \in Records :
          /\ heap'[a].currentStep \in 1..Len(steps)
          /\ heap'[a].currentStep >= heap[a].currentStep]_vars

\* C5 as stated: at every step boundary (the call waits for the delay of a
\* stage that has begun, or a stage has ended) the progress of the current
\* record is 20 times its currentStep.
C5_ProgressAtEveryBoundary ==
  \A f \in 1..Len(flows) :
     flows[f].pc \in {"delay", "resumeLoop"} =>
       heap[currentResearch].progress = heap[currentResearch].currentStep * 20

\* C5: when stage k of a call ends (lines 113-119) the progress of the
\* current record is exactly 20 * k; when stage k begins (lines 85-89) its
\* currentStep is k and its progress is what the stage before left,
\* 20 * (k - 1); a new record has currentStep 1 and progress 0.
C5_ProgressAtStageEnd ==
  [][\A f \in 1..Len(flows') :
        /\ (f > Len(flows)) =>
              /\ heap'[currentResearch'].progress = 0
              /\ heap'[currentResearch'].currentStep = 1
              /\ flows'[f].step = 1
        /\ (f <= Len(flows) /\ flows[f].pc = "resumeStep"
                            /\ flows'[f].pc = "resumeLoop") =>
              heap'[currentResearch'].progress = 20 * flows[f].step
        /\ (f <= Len(flows) /\ flows[f].pc = "resumeLoop"
                            /\ flows'[f].pc = "delay") =>
              /\ flows'[f].step = flows[f].step + 1
              /\ heap'[currentResearch'].currentStep = flows'[f].step
              /\ heap'[currentResearch'].progress = 20 * (flows'[f].step - 1)]_vars

\* Stage 3 of some call has ended on the current record.
C5_StageThreeEnded ==
  \E f \in 1..Len(flows) :
     /\ flows[f].pc = "resumeLoop"
     /\ flows[f].step = 3
     /\ heap[currentResearch].currentStep = 3
     /\ heap[currentResearch].progress = 60

\* The records that hold results.
WithResults == {a \in Records : heap[a].results # Null}

\* C6: the results of a record hold at most 5, 10 or 15 sources for the
\* depths basic, detailed and comprehensive, and at most 15 for any depth.
C6_SourcesWithinDepth ==
  \A a \in WithResults :
     LET n == Len(heap[a].results.sources)
     IN  /\ n <= 15
         /\ heap[a].depth = "basic" => n <= 5
         /\ heap[a].depth = "detailed" => n <= 10
         /\ heap[a].depth = "comprehensive" => n <= 15
         /\ heap[a].results.metadata.totalSources = n

\* A basic run kept 5 of more than 5 candidates, and a run of a depth the
\* table of processData does not list kept 15.
C6_CutAtDepth ==
  /\ \E a \in WithResults :
        /\ heap[a].depth = "basic"
        /\ Len(heap[a].results.sources) = 5
        /\ Len(heap[a].rawData.wikipedia) + Len(heap[a].rawData.hackernews) > 5
  /\ \E a \in WithResults :
        /\ heap[a].depth = "exhaustive"
        /\ Len(heap[a].results.sources) = 15

descending(sources) ==
  \A i \in 1..(Len(sources) - 1) : sources[i].relevance >= sources[i + 1].relevance

\* Stage 3 or stage 4 of call f runs in this step.
StageRuns(f, stepNumber) ==
  /\ f <= Len(flows')
  /\ flows[f].pc = "delay"
  /\ flows[f].step = stepNumber
  /\ flows'[f].pc = "resumeStep"

\* What processData kept of the candidates of the record: as many as the
\* depth allows, out of the candidates, none less relevant than a candidate
\* it dropped.
KeptTheBest(o) ==
  LET kept == o.processedData.sources
      candidates == o.rawData.wikipedia \o o.rawData.hackernews
      keptSet == {kept[i] : i \in 1..Len(kept)}
      dropped == {candidates[i] : i \in 1..Len(candidates)} \ keptSet
  IN  /\ keptSet \subseteq {candidates[i] : i \in 1..Len(candidates)}
      /\ Cardinality(keptSet) = Len(kept)
      /\ Cardinality(dropped) = Len(candidates) - Len(kept)
      /\ \A d \in dropped : \A k \in keptSet : d.relevance <= k.relevance

\* C7: results.sources is in descending order of relevance, and it is what
\* processData kept: the most relevant of the merged candidates.
C7_SourcesByRelevance ==
  /\ [](\A a \in WithResults : descending(heap[a].results.sources))
  /\ [][\A f \in 1..Len(flows) :
          /\ StageRuns(f, 3) =>
               /\ descending(heap'[currentResearch].processedData.sources)
               /\ KeptTheBest(heap'[currentResearch])
          /\ StageRuns(f, 4) =>
               heap'[currentResearch].results.sources =
                 heap[currentResearch].processedData.sources]_vars

\* Results whose first source is more relevant than the last, in which the
\* sort put a HackerNews article before a Wikipedia article, cut from more
\* candidates.
C7_OrderedAndCut ==
  \E a \in WithResults :
     LET sources == heap[a].results.sources
     IN  /\ Len(sources) >= 2
         /\ sources[1].relevance > sources[Len(sources)].relevance
         /\ \E i, j \in 1..Len(sources) :
               /\ i < j
               /\ sources[i].source = "HackerNews"
               /\ sources[j].source = "Wikipedia"
         /\ Len(heap[a].rawData.wikipedia) + Len(heap[a].rawData.hackernews)
              > Len(sources)

\* C8: a submission whose topic is empty after trimming opens the dialog and
\* changes nothing else: no object is created, the current research, the
\* history and the stored item stay, and findById answers as before for every
\* id given out.
C8_EmptyTopicChangesNothing ==
  [][\A request \in requests, at \in UserTimes :
        (trim(request[1]) = <<>> /\ handleSubmit(request[1], request[2], at)) =>
          /\ dom'.alertOpen
          /\ UNCHANGED <<heap, currentResearch, researchHistory, storage,
                         flows, nextId>>
          /\ \A researchId \in KnownIds : findById(researchId)' = findById(researchId)]_vars

\* The dialog is open on a page that has a history and a run in progress.
C8_RejectedWithHistory ==
  /\ dom.alertOpen
  /\ researchHistory # <<>>
  /\ RunInProgress

\* Saving the array objects and loading it: the first element has the id,
\* topic, depth, logs and results of the first object, its startTime and
\* endTime are the same instants, an endTime that is not set is null; saving
\* what was loaded and loading again gives what was loaded.
RoundTrip(objects) ==
  LET item   == saveHistory(NoItem, objects, TRUE)
      loaded == loadHistory(item)
      again  == loadHistory(saveHistory(item, loaded, TRUE))
      o      == objects[1]
  IN  /\ Len(loaded) = Len(objects)
      /\ loaded[1].id = o.id
      /\ loaded[1].topic = o.topic
      /\ loaded[1].depth = o.depth
      /\ loaded[1].logs = o.logs
      /\ loaded[1].results = o.results
      /\ loaded[1].startTime = o.startTime
      /\ loaded[1].endTime = (IF o.endTime.k = "date" THEN o.endTime ELSE Null)
      /\ again = loaded

\* The stored item holds the history as it was when it was last written: its
\* elements are the last elements of the history.
StoredIsHistorySaved ==
  LET loaded == loadHistory(storage)
      n == Len(researchHistory) - Len(loaded)
  IN  /\ n >= 0
      /\ \A i \in 1..Len(loaded) :
            LET o == heap[researchHistory[n + i]]
            IN  /\ loaded[i].shape = o.shape
                /\ o.shape = "research" =>
                     /\ loaded[i].id = o.id
                     /\ loaded[i].topic = o.topic
                     /\ loaded[i].depth = o.depth
                     /\ loaded[i].startTime = o.startTime

\* C9: unshift and saveHistory followed by loadHistory give back the record
\* as the first element, for every record of the page put before the
\* history; and the stored item is the history as last saved.
C9_SaveThenLoad ==
  /\ \A a \in Records : RoundTrip(<<heap[a]>> \o ObjectsOf(heap, researchHistory))
  /\ StoredIsHistorySaved

\* The stored item holds two runs: the later one saved while running (its
\* endTime loads as null), the earlier one saved again when completed.
C9_TwoRunsStored ==
  LET loaded == loadHistory(storage)
  IN  /\ Len(loaded) = 2
      /\ loaded[1].shape = "research" /\ loaded[1].endTime = Null
      /\ loaded[1].startTime.ms % MsPerSecond # 0
      /\ loaded[2].shape = "research" /\ loaded[2].endTime.k = "date"

\* Nothing stored, text that does not parse, a value that is no array, an
\* array with a null element.
CorruptOrAbsent(item) ==
  \/ item.k \in {"none", "empty", "malformed"}
  \/ /\ item.k = "json"
     /\ \/ item.value.t \in {"null", "number", "object"}
        \/ /\ item.value.t = "array"
           /\ \E i \in 1..Len(item.value.items) : item.value.items[i].t = "null"

\* C10: loadHistory returns the empty list for such an item, and a page
\* built on it (no call of startResearch made yet) has an empty history.
C10_CorruptLoadsEmpty ==
  CorruptOrAbsent(storage) =>
    /\ loadHistory(storage) = <<>>
    /\ flows = <<>> => researchHistory = <<>> /\ heap = <<>>

\* The page was loaded again on an array with a null element.
C10_ReloadedOnNullElement ==
  /\ reloads > 0
  /\ storage.k = "json"
  /\ storage.value.t = "array"
  /\ \E i \in 1..Len(storage.value.items) : storage.value.items[i].t = "null"
  /\ researchHistory = <<>>

\* Stage stepNumber of call f runs in this step, to its end or to a throw.
TimerOfStageFires(f, stepNumber) ==
  /\ f <= Len(flows')
  /\ flows[f].pc = "delay"
  /\ flows[f].step = stepNumber
  /\ flows'[f].pc # "delay"

\* Stage 4 of call f runs in this step on a record that has processedData,
\* and localStorage refuses the write: the stored item stays as it was (an
\* accepted write stores an array longer than any stored before).
WriteFails(f) ==
  /\ TimerOfStageFires(f, 4)
  /\ heap[currentResearch].processedData # Undefined
  /\ storage' = storage

\* The record at address a is in the history and not in the stored item.
Unsaved(a) ==
  /\ \E i \in 1..Len(researchHistory) : researchHistory[i] = a
  /\ \A i \in 1..Len(loadHistory(storage)) :
        LET stored == loadHistory(storage)[i]
        IN  stored.shape \in {"research", "partial"} => stored.id # heap[a].id

\* C11: when the write of stage 4 fails the stage still ends normally: the
\* record is put at the front of the history with its results, the entries
\* behind it stay, the record is still running; and stage 5 on a record that
\* was not stored ends with status completed, the record still in the
\* history.
C11_FailedWriteDoesNotAbort ==
  [][\A f \in 1..Len(flows) :
        /\ WriteFails(f) =>
             /\ flows'[f].pc = "resumeStep"
             /\ researchHistory' = <<currentResearch>> \o researchHistory
             /\ heap'[currentResearch].results # Null
             /\ heap'[currentResearch].results.sources =
                  heap[currentResearch].processedData.sources
             /\ heap'[currentResearch].status = heap[currentResearch].status
        /\ (TimerOfStageFires(f, 5) /\ Unsaved(currentResearch)) =>
             /\ flows'[f].pc = "resumeStep"
             /\ heap'[currentResearch].status = "completed"
             /\ heap'[currentResearch].results = heap[currentResearch].results
             /\ researchHistory' = researchHistory]_vars

\* A run whose write failed is finished: its record is completed, at the
\* front of the history, with results, and not in the stored item.
C11_CompletedUnsaved ==
  \E a \in Records :
     /\ Unsaved(a)
     /\ researchHistory[1] = a
     /\ heap[a].status = "completed"
     /\ heap[a].progress = 100
     /\ heap[a].results # Null

\* C12: when the write of stage 4 fails, the stage does not log that the
\* results were saved.
C12_FailedWriteIsNotLoggedAsSaved ==
  [][\A f \in 1..Len(flows) :
        WriteFails(f) =>
          \A i \in (Len(heap[currentResearch].logs) + 1)..Len(heap'[currentResearch].logs) :
             heap'[currentResearch].logs[i].message.text # "Results saved successfully"]_vars

\* C13: a call whose provider fetch failed in stage 2 has not thrown the
\* error out of the workflow uncaught (its promise is not left rejected with
\* nothing told to the page): the record it created is not left running and
\* the form is not left disabled.
C13_FetchFailureIsSurfaced ==
  \A f \in 1..Len(flows) :
     (flows[f].pc = "rejected" /\ flows[f].step = 2) =>
        /\ heap[flows[f].record].status # "running"
        /\ ~dom.formDisabled

\* The addresses of the objects that have logs.
Logged == {a \in 1..Len(heap) : heap[a].shape \in {"research", "partial"}}

\* C14: the logs of an object only grow at the end: in every step of the
\* page the logs before the step are the first entries of the logs after
\* it, and the entries added bear the time of the step.
C14_LogsAppendOnly ==
  [][reloads' = reloads =>
       \A a \in Logged :
          LET old == heap[a].logs
              new == heap'[a].logs
          IN  /\ Len(new) >= Len(old)
              /\ SubSeq(new, 1, Len(old)) = old
              /\ \A i \in (Len(old) + 1)..Len(new) :
                    new[i].timestamp = now' \div MsPerSecond]_vars

\* A completed record holds the logs of its five stages, the first of them
\* older than the last.
C14_LogsOfFiveStages ==
  \E a \in Records :
     /\ heap[a].status = "completed"
     /\ Len(heap[a].logs) > 20
     /\ heap[a].logs[1].message.args = <<"Input Parsing">>
     /\ heap[a].logs[1].timestamp < heap[a].logs[Len(heap[a].logs)].timestamp

\* The awaits a call may pass in one step: from the delay of a stage to the
\* end of the stage (stage 2: to the Wikipedia fetch, then to the HackerNews
\* fetch, then to the end of the stage), from there to the loop, from the
\* loop to the delay of the next stage; or the call ends with an error.
Sequential(before, after) ==
  \/ after = before
  \/ after.pc = "rejected"
  \/ /\ after.step = before.step
     /\ \/ before.pc = "delay" /\ before.step # 2 /\ after.pc = "resumeStep"
        \/ before.pc = "delay" /\ before.step = 2 /\ after.pc = "fetchWikipedia"
        \/ before.pc = "fetchWikipedia" /\ after.pc = "fetchHackerNews"
        \/ before.pc = "fetchHackerNews" /\ after.pc = "resumeStep"
        \/ before.pc = "resumeStep" /\ after.pc = "resumeLoop"
  \/ /\ before.pc = "resumeLoop"
     /\ after.pc = "delay"
     /\ after.step = before.step + 1

\* C15: the stages of a call do not overlap.  A call passes its awaits in
\* order; a delay or a fetch ends no earlier than the time it is due, which
\* is the time it began plus its latency; and when stage 2 ends and when
\* stage 3 begins, both fetches have returned and rawData of the current
\* record holds the two lists.
C15_StagesInSequence ==
  [][\A f \in 1..Len(flows) :
        f <= Len(flows') =>
          /\ Sequential([pc |-> flows[f].pc, step |-> flows[f].step],
                        [pc |-> flows'[f].pc, step |-> flows'[f].step])
          /\ (flows[f].pc \in {"delay", "fetchWikipedia", "fetchHackerNews"}
                /\ flows'[f].pc # flows[f].pc) => now' = flows[f].due
          /\ (flows'[f].pc = "delay" /\ flows[f].pc # "delay") =>
                flows'[f].due = now' + steps[flows'[f].step].duration
          /\ (flows[f].step = 2 /\ flows'[f].pc \in {"resumeStep", "resumeLoop"}
                /\ flows'[f].pc # flows[f].pc) =>
                /\ heap'[currentResearch].rawData # Undefined
                /\ flows'[f].sources = <<>>
          /\ (flows[f].pc = "fetchHackerNews" /\ flows'[f].pc = "resumeStep") =>
                /\ heap'[currentResearch].rawData.wikipedia = flows[f].sources
                /\ now' >= heap[flows[f].record].startTime.ms + steps[1].duration
                             + steps[2].duration + WikipediaDelay + HackerNewsDelay
          /\ (flows[f].step = 2 /\ flows'[f].step = 3) =>
                /\ flows[f].pc = "resumeLoop"
                /\ heap[currentResearch].rawData # Undefined]_vars

\* Stage 3 of a call has begun on a record whose rawData holds articles of
\* both providers.
C15_StageThreeAfterBothFetches ==
  \E f \in 1..Len(flows) :
     /\ flows[f].pc = "delay"
     /\ flows[f].step = 3
     /\ heap[currentResearch].rawData # Undefined
     /\ heap[currentResearch].rawData.wikipedia # <<>>
     /\ heap[currentResearch].rawData.hackernews # <<>>

\* C16: a call that passed its five stages leaves the record it created
\* completed: status "completed", endTime set, results present, progress
\* 100.  Stated for pages whose objects are all records of startResearch,
\* where no fetch and no display fails.
C16_RunEndsCompleted ==
  (\A a \in 1..Len(heap) : heap[a].shape = "research") =>
    \A f \in 1..Len(flows) :
       (flows[f].pc = "rejected" /\ flows[f].step = 5) =>
          LET o == heap[flows[f].record]
          IN  /\ o.status = "completed"
              /\ o.endTime.k = "date"
              /\ o.results # Null
              /\ o.progress = 100

\* C17: when stage 4 puts the current record at the front of the history,
\* every entry the history already had is left as it was and in its place,
\* and the record is a new entry: the history grows by one entry per run.
C17_HistoryInsertLeavesEntries ==
  [][\A f \in 1..Len(flows) :
        (TimerOfStageFires(f, 4) /\ researchHistory' # researchHistory) =>
           /\ researchHistory' = <<currentResearch>> \o researchHistory
           /\ \A i \in 1..Len(researchHistory) :
                 /\ researchHistory[i] # currentResearch
                 /\ heap'[researchHistory[i]] = heap[researchHistory[i]]]_vars

\* C18: loadResearchFromHistory with an id that is not in the history, or
\* with the id of an entry that is not completed, ends without an error and
\* leaves currentResearch, the history, the records, storage, the page and
\* the calls in progress as they were; with the id of a completed entry it
\* makes that entry the current research and the one displayed.
C18_LookupOfHistoryEntry ==
  [][\A researchId \in KnownIds :
        loadResearchFromHistory(researchId, now') =>
          LET research == findById(researchId)
          IN  IF research = 0 \/ heap[research].status # "completed"
                THEN UNCHANGED <<currentResearch, heap, researchHistory,
                                 storage, dom, flows>>
                ELSE /\ currentResearch' = research
                     /\ dom'.displayed = research
                     /\ dom'.resultsSection
                     /\ UNCHANGED <<heap, researchHistory, storage,
                                    flows>>]_vars

\* A completed entry was opened from the history while the history also
\* holds an entry that is still running.
C18_OpenedFromHistory ==
  /\ clicksLeft < MaxClicks
  /\ currentResearch # 0
  /\ heap[currentResearch].status = "completed"
  /\ dom.displayed = currentResearch
  /\ \E i \in 1..Len(researchHistory) :
        /\ heap[researchHistory[i]].shape = "research"
        /\ heap[researchHistory[i]].status = "running"

\* status and endTime of a record agree: the status is "running" or
\* "completed", and endTime is a date when it is "completed" and unset
\* (undefined, or null once read from storage) when it is "running".
StatusAgreesWithEndTime(o) ==
  /\ o.status \in {"running", "completed"}
  /\ o.status = "completed" <=> o.endTime.k = "date"
  /\ o.status = "running" <=> o.endTime \in {Undefined, Null}

\* C19: between the steps of the page the endTime of every record is set
\* exactly when its status is "completed", and a record that is completed
\* stays completed as long as the page lives.
C19_StatusOneWay ==
  [][/\ \A a \in Records : StatusAgreesWithEndTime(heap[a])
     /\ \A a \in 1..Len(heap') :
           heap'[a].shape = "research" => StatusAgreesWithEndTime(heap'[a])
     /\ reloads' = reloads =>
           \A a \in Records :
              heap[a].status = "completed" => heap'[a].status = "completed"]_vars

\* One record is completed, with endTime later than startTime, while another
\* is running, with no endTime.
C19_CompletedAndRunning ==
  \E a, b \in Records :
     /\ heap[a].status = "completed"
     /\ heap[a].endTime.ms > heap[a].startTime.ms
     /\ heap[b].status = "running"
     /\ heap[b].endTime = Undefined

\* C20: a workflow writes only the record its own call of startResearch
\* created: whenever a record changes, a call that created it has moved on.
C20_WorkflowKeepsItsRecord ==
  [][reloads' = reloads =>
       \A a \in Records :
          heap'[a] # heap[a] =>
             \E f \in 1..Len(flows) :
                /\ flows[f].record = a
                /\ <<flows'[f].pc, flows'[f].step>> # <<flows[f].pc, flows[f].step>>]_vars

\* C21: the history in memory holds no record twice: no two of its entries
\* are the same object, and no two of them have the same id.
C21_NoRecordTwiceInHistory ==
  \A i, j \in 1..Len(researchHistory) :
     i < j =>
        /\ researchHistory[i] # researchHistory[j]
        /\ (heap[researchHistory[i]].shape = "research"
              /\ heap[researchHistory[j]].shape = "research") =>
              heap[researchHistory[i]].id # heap[researchHistory[j]].id

\* The place of an article in the merged list of stage 3: the Wikipedia
\* articles in catalog order, then the HackerNews articles in catalog order.
mergedPlace(article) ==
  IF article.source = "Wikipedia" THEN article.key
  ELSE Len(WikipediaArticles) + article.key

\* C22: stage 3 keeps candidates of equal relevance in their merged order
\* (Wikipedia before HackerNews, catalog order within a provider), and the
\* list it writes is the one the candidate lists determine: the candidates
\* ranked by relevance, ties by merged place, cut at the depth.
C22_TiesKeepMergedOrder ==
  [][\A f \in 1..Len(flows) :
        (TimerOfStageFires(f, 3) /\ flows'[f].pc = "resumeStep") =>
           LET o          == heap'[currentResearch]
               sources    == o.processedData.sources
               candidates == o.rawData.wikipedia \o o.rawData.hackernews
               before(x, y) ==
                 \/ x.relevance > y.relevance
                 \/ x.relevance = y.relevance /\ mergedPlace(x) < mergedPlace(y)
               kept == {c \in 1..Len(candidates) :
                          depthMap(o.depth) = 0 \/
                          Cardinality({d \in 1..Len(candidates) :
                             before(candidates[d], candidates[c])}) < depthMap(o.depth)}
           IN  /\ \A i, j \in 1..Len(sources) :
                     i < j => before(sources[i], sources[j])
               /\ {sources[i] : i \in 1..Len(sources)} = {candidates[c] : c \in kept}]_vars

\* A result in which a HackerNews article follows the Wikipedia article of
\* the same relevance, next to it.
C22_TieInResult ==
  \E a \in WithResults :
     \E i \in 1..(Len(heap[a].results.sources) - 1) :
        LET x == heap[a].results.sources[i]
            y == heap[a].results.sources[i + 1]
        IN  /\ x.relevance = y.relevance
            /\ x.source = "Wikipedia"
            /\ y.source = "HackerNews"

\* A provider call returns to gatherData in this step.
WikipediaReturns(f) ==
  /\ f <= Len(flows')
  /\ flows[f].pc = "fetchWikipedia"
  /\ flows'[f].pc = "fetchHackerNews"

HackerNewsReturns(f) ==
  /\ f <= Len(flows')
  /\ flows[f].pc = "fetchHackerNews"
  /\ flows'[f].pc = "resumeStep"

\* What the call returns, the catalog it read and the cap of its provider.
Returned(f) ==
  IF WikipediaReturns(f) THEN flows'[f].sources
  ELSE heap'[currentResearch].rawData.hackernews

CatalogOf(f) == IF WikipediaReturns(f) THEN wikipediaData ELSE hackerNewsData

CapOf(f) == IF WikipediaReturns(f) THEN WikipediaLimit ELSE HackerNewsLimit

IsReturned(f, article) ==
  \E i \in 1..Len(Returned(f)) : Returned(f)[i] = article

\* The article passed the filter: it was returned, or the cap cut it off
\* behind the articles that were returned.
IsCandidate(f, article) ==
  \/ IsReturned(f, article)
  \/ /\ Len(Returned(f)) = CapOf(f)
     /\ \A i \in 1..Len(Returned(f)) : Returned(f)[i].key < article.key

\* The jitter in ten-thousandths: the values of [0, 0.3).
Jitters == 0..2999

\* Some jitter lifts the score above 0.3: matched / tokens + jitter, at most
\* 1.0, is greater than 0.3.
ScoreMayPass(topic, article) ==
  LET m == matchesOf[topic][article]
  IN  \E jitter \in Jitters :
         10 * Min(m.matches * 10000 + jitter * m.words, 10000 * m.words)
            > 3 * 10000 * m.words

\* C23: a provider call returns an article only if the topic is a substring
\* of its title or summary (letter case aside) or its score, for some
\* jitter, is greater than 0.3; and every article that holds the topic as a
\* substring is a candidate.
C23_ReturnedOnlyIfRelevant ==
  [][\A f \in 1..Len(flows) :
        (WikipediaReturns(f) \/ HackerNewsReturns(f)) =>
           LET topic == flows[f].topic
           IN  /\ \A i \in 1..Len(Returned(f)) :
                     \/ includedIn[topic][Returned(f)[i]]
                     \/ ScoreMayPass(topic, Returned(f)[i])
               /\ \A k \in 1..Len(CatalogOf(f)) :
                     includedIn[topic][CatalogOf(f)[k]] =>
                        IsCandidate(f, CatalogOf(f)[k])]_vars

\* A Wikipedia call has returned an article that holds the topic, an article
\* that does not hold it, and has left an article of the catalog out.
C23_ReturnedBySubstringAndByScore ==
  \E f \in 1..Len(flows) :
     /\ flows[f].pc = "fetchHackerNews"
     /\ flows[f].topic \in Topics
     /\ \E i \in 1..Len(flows[f].sources) :
           includedIn[flows[f].topic][flows[f].sources[i]]
     /\ \E i \in 1..Len(flows[f].sources) :
           ~includedIn[flows[f].topic][flows[f].sources[i]]
     /\ \E k \in 1..Len(wikipediaData) :
           \A i \in 1..Len(flows[f].sources) : flows[f].sources[i] # wikipediaData[k]

\* C24: whatever is drawn, an article that matches no token of the topic and
\* does not hold the topic is not returned, and an article that matches more
\* than 30% of the tokens of the topic is a candidate.
C24_JitterAloneNeverAdmits ==
  [][\A f \in 1..Len(flows) :
        (WikipediaReturns(f) \/ HackerNewsReturns(f)) =>
           LET topic == flows[f].topic
           IN  \A k \in 1..Len(CatalogOf(f)) :
                  LET article == CatalogOf(f)[k]
                      m       == matchesOf[topic][article]
                  IN  /\ (m.matches = 0 /\ ~includedIn[topic][article]) =>
                            ~IsReturned(f, article)
                      /\ 10 * m.matches > 3 * m.words =>
                            IsCandidate(f, article)]_vars

\* A Wikipedia call has left out an article that matches a token of the
\* topic, but no more than 30% of the tokens (the jitter decided against
\* it), and an article that matches no token.
C24_JitterDecided ==
  \E f \in 1..Len(flows) :
     /\ flows[f].pc = "fetchHackerNews"
     /\ flows[f].topic \in Topics
     /\ \E k \in 1..Len(wikipediaData) :
           LET m == matchesOf[flows[f].topic][wikipediaData[k]]
           IN  /\ m.matches > 0
               /\ 10 * m.matches <= 3 * m.words
               /\ ~includedIn[flows[f].topic][wikipediaData[k]]
               /\ \A i \in 1..Len(flows[f].sources) :
                     flows[f].sources[i] # wikipediaData[k]
     /\ \E k \in 1..Len(wikipediaData) :
           /\ matchesOf[flows[f].topic][wikipediaData[k]].matches = 0
           /\ \A i \in 1..Len(flows[f].sources) :
                 flows[f].sources[i] # wikipediaData[k]

\* C25: a Wikipedia call returns at most 8 articles and a HackerNews call
\* at most 7, whatever the depth: the first articles of the catalog that
\* passed the filter, in catalog order, and all of them when they are fewer
\* than the cap.  The cap of the depth is applied in stage 3 only, to the
\* merged list.
C25_CapsOfTheProviders ==
  [][\A f \in 1..Len(flows) :
        /\ (WikipediaReturns(f) \/ HackerNewsReturns(f)) =>
              /\ Len(Returned(f)) <= CapOf(f)
              /\ \A i \in 1..Len(Returned(f)) :
                    /\ Returned(f)[i] = CatalogOf(f)[Returned(f)[i].key]
                    /\ i > 1 => Returned(f)[i - 1].key < Returned(f)[i].key
              /\ \A k \in 1..Len(CatalogOf(f)) :
                    LET m == matchesOf[flows[f].topic][CatalogOf(f)[k]]
                    IN  10 * m.matches > 3 * m.words =>
                           IsCandidate(f, CatalogOf(f)[k])
        /\ (TimerOfStageFires(f, 3) /\ flows'[f].pc = "resumeStep") =>
              LET o == heap'[currentResearch]
              IN  /\ o.rawData = heap[currentResearch].rawData
                  /\ Len(o.processedData.sources) =
                       IF depthMap(o.depth) = 0
                         THEN Len(o.rawData.wikipedia) + Len(o.rawData.hackernews)
                         ELSE Min(depthMap(o.depth),
                                  Len(o.rawData.wikipedia) + Len(o.rawData.hackernews))]_vars

\* A run of depth basic was given 8 Wikipedia and 7 HackerNews articles, out
\* of catalogs that hold more candidates, and kept 5 of them in stage 3.
C25_FullFetchesAtDepthBasic ==
  \E a \in Records :
     /\ heap[a].depth = "basic"
     /\ heap[a].rawData # Undefined
     /\ Len(heap[a].rawData.wikipedia) = WikipediaLimit
     /\ Len(heap[a].rawData.hackernews) = HackerNewsLimit
     /\ heap[a].processedData # Undefined
     /\ Len(heap[a].processedData.sources) = 5
     /\ \E k \in 1..Len(wikipediaData) :
           /\ 10 * matchesOf[heap[a].topic][wikipediaData[k]].matches
                 > 3 * matchesOf[heap[a].topic][wikipediaData[k]].words
           /\ \A i \in 1..WikipediaLimit : heap[a].rawData.wikipedia[i] # wikipediaData[k]

\* The records stage 3 has written.
Processed == {a \in Records : heap[a].processedData # Undefined}

\* The tokens of a topic, in lower case, each one once, in topic order.
tokensOf(topic) == unique(split(toLowerCase(topic)))

\* C26: the keywords stage 3 writes are at most 12, none of them twice, and
\* they begin with the tokens of the topic in lower case and in topic order:
\* with all of them when the topic has at most 12 distinct tokens.
C26_KeywordsBeginWithTopic ==
  \A a \in Processed :
     LET keywords == heap[a].processedData.keywords
         tokens   == tokensOf(heap[a].topic)
     IN  /\ Len(keywords) <= 12
         /\ \A i, j \in 1..Len(keywords) : i # j => keywords[i] # keywords[j]
         /\ \A i \in 1..Len(keywords) : i <= Len(tokens) => keywords[i] = tokens[i]
         /\ Len(tokens) <= 12 => Len(keywords) >= Len(tokens)

\* The keywords of a run on "Machine Learning" are twelve that begin with
\* "machine" and "learning"; "machine learning" is another of them.
C26_KeywordsOfMachineLearning ==
  \E a \in Processed :
     LET keywords == heap[a].processedData.keywords
     IN  /\ heap[a].topic = TopicMachineLearning
         /\ Len(keywords) = 12
         /\ keywords[1] = <<"m","a","c","h","i","n","e">>
         /\ keywords[2] = <<"l","e","a","r","n","i","n","g">>
         /\ keywords[4] = <<"m","a","c","h","i","n","e"," ","l","e","a","r","n","i","n","g">>

\* The places in a log of the start entries and of the completion entries
\* of stage k.
startsOf(logs, k) ==
  {i \in 1..Len(logs) : logs[i].message = Message("Starting ...", <<steps[k].name>>)}

completionsOf(logs, k) ==
  {i \in 1..Len(logs) :
     logs[i].message = Message("... completed successfully", <<steps[k].name>>)}

\* C27: the log of a finished run holds, for every stage, one start entry
\* and one completion entry, the start before the completion, and the
\* completion of a stage before the start of the next: the entries of a
\* stage lie between its two, and before those of the next stage.
C27_LogOfFinishedRun ==
  \A a \in Records :
     (heap[a].status = "completed" /\ heap[a].progress = 100) =>
        LET logs == heap[a].logs
        IN  \A k \in 1..Len(steps) :
               /\ Cardinality(startsOf(logs, k)) = 1
               /\ Cardinality(completionsOf(logs, k)) = 1
               /\ \A s \in startsOf(logs, k), c \in completionsOf(logs, k) : s < c
               /\ k < Len(steps) =>
                     \A c \in completionsOf(logs, k), s \in startsOf(logs, k + 1) : c < s

\* What stage 3 makes of a topic, a depth and the two candidate lists.
processedDataOf(topic, depth, rawData) ==
  LET sources == topSourcesOf(rawData.wikipedia \o rawData.hackernews, depthMap(depth))
  IN  [k |-> "object", sources |-> sources,
       summary |-> generateSummary(topic, sources),
       keywords |-> extractKeywords(topic, sources)]

\* C28: stage 3 is a function of the topic, the depth and rawData of the
\* record: what it writes is determined by them, two records that agree in
\* them and were processed from them agree in processedData, and the
\* relevance the sources are ranked by is the one the catalog gives.
C28_StageThreeIsAFunction ==
  [][\A f \in 1..Len(flows) :
        (TimerOfStageFires(f, 3) /\ flows'[f].pc = "resumeStep") =>
           LET o == heap'[currentResearch]
           IN  /\ o.processedData = processedDataOf(o.topic, o.depth, o.rawData)
               /\ \A i \in 1..Len(o.processedData.sources) :
                     LET x == o.processedData.sources[i]
                     IN  /\ x.relevance = TextOf(x).relevance
                         /\ i > 1 => o.processedData.sources[i - 1].relevance >= x.relevance
               /\ \A b \in Records :
                     (/\ heap'[b].topic = o.topic
                      /\ heap'[b].depth = o.depth
                      /\ heap'[b].rawData = o.rawData
                      /\ heap[b].rawData = o.rawData
                      /\ heap'[b].processedData # Undefined) =>
                        heap'[b].processedData = o.processedData]_vars

\* Two records with the same topic, depth and candidates, with a tie among
\* the candidates, have both been processed.
C28_TwoRunsOfTheSameInput ==
  \E a, b \in Processed :
     /\ a # b
     /\ heap[a].topic = heap[b].topic
     /\ heap[a].depth = heap[b].depth
     /\ heap[a].rawData = heap[b].rawData
     /\ heap[a].processedData = heap[b].processedData
     /\ \E i \in 1..(Len(heap[a].processedData.sources) - 1) :
           heap[a].processedData.sources[i].relevance
             = heap[a].processedData.sources[i + 1].relevance

\* The results of a record agree with it: as many sources as
\* metadata.totalSources says, and the depth of the record.
ResultsAgree(o) ==
  o.results # Null =>
     /\ o.results.metadata.totalSources = Len(o.results.sources)
     /\ o.results.metadata.researchDepth = o.depth

\* C29: no step changes the id, the topic, the depth or the startTime of a
\* record; the results of a record are null as long as the call that created
\* it is in stages 1 to 3; and results that are written agree with the
\* record in the number of sources and the depth.
C29_FrameOfARun ==
  [][reloads' = reloads =>
       /\ \A a \in Records :
             /\ heap'[a].id = heap[a].id
             /\ heap'[a].topic = heap[a].topic
             /\ heap'[a].depth = heap[a].depth
             /\ heap'[a].startTime = heap[a].startTime
             /\ ResultsAgree(heap'[a])
       /\ \A f \in 1..Len(flows') :
             (flows'[f].pc # "rejected" /\ flows'[f].step <= 3) =>
                heap'[flows'[f].record].results = Null]_vars

\* C30: the catalogs of the provider are what the constructor made them:
\* the same articles, in the same order, with the same relevance.
C30_CatalogsAreNeverChanged ==
  /\ wikipediaData = generateWikipediaData
  /\ hackerNewsData = generateHackerNewsData
  /\ \A i \in 1..Len(wikipediaData) :
        wikipediaData[i].relevance = WikipediaArticles[i].relevance
  /\ \A i \in 1..Len(hackerNewsData) :
        hackerNewsData[i].relevance = HackerNewsArticles[i].relevance

\* A run has completed whose sources were filtered out of both catalogs, cut
\* and put into another order than that of the catalogs.
C30_CompletedRunOfBothCatalogs ==
  \E a \in WithResults :
     LET sources == heap[a].results.sources
     IN  /\ heap[a].status = "completed"
         /\ Len(heap[a].rawData.wikipedia) < Len(wikipediaData)
         /\ Len(heap[a].rawData.hackernews) < Len(hackerNewsData)
         /\ Len(sources) < Len(heap[a].rawData.wikipedia) + Len(heap[a].rawData.hackernews)
         /\ \E i \in 1..(Len(sources) - 1) :
               /\ sources[i].source = "HackerNews"
               /\ sources[i + 1].source = "Wikipedia"

====
